---- MODULE Spec2Model ----
(***************************************************************************)
(* CHIP-8 emulator: the hardware (CPU, screen, keypad), the decoder and    *)
(* the multi-rate scheduler (clock, timer, screen, input pump, hardware    *)
(* consumer) running as five futures of one select!.                       *)
(***************************************************************************)
EXTENDS Integers, Naturals, Sequences, FiniteSets, TLC

(* ---------------- bounds of the model ---------------- *)
MaxCpuTicks == 5
MaxTimerTicks == 1
MaxScreenTicks == 1
MaxInputs == 3
(* channel capacities, scaled down from the 100 slots of mpsc::channel(100) *)
HardChanCap == 2
ClockChanCap == 2
PlaybackChanCap == 2

(* ---------------- program constants ---------------- *)
MEMORY_SIZE == 4096
REGISTER_COUNT == 16
INSTRUCTION_SIZE_B == 2
N_ROWS == 32
N_COLS == 64
ENTRY_POINT == 512
FONT_START_ADDR == 80
BYTES_PER_FONT == 5
U8 == 256
U16 == 65536

FONT ==
  << 240, 144, 144, 144, 240,   32,  96,  32,  32, 112,
     240,  16, 240, 128, 240,  240,  16, 240,  16, 240,
     144, 144, 240,  16,  16,  240, 128, 240,  16, 240,
     240, 128, 240, 144, 240,  240,  16,  32,  64,  64,
     240, 144, 240, 144, 240,  240, 144, 240,  16, 240,
     240, 144, 240, 144, 144,  224, 144, 224, 144, 224,
     240, 128, 128, 128, 240,  224, 144, 144, 144, 224,
     240, 128, 240, 128, 240,  240, 128, 240, 128, 128 >>

(* ---------------- bit arithmetic on machine integers ---------------- *)
RECURSIVE BitAnd(_, _)
BitAnd(a, b) ==
  IF a = 0 \/ b = 0 THEN 0
  ELSE ((a % 2) * (b % 2)) + 2 * BitAnd(a \div 2, b \div 2)

RECURSIVE BitOr(_, _)
BitOr(a, b) ==
  IF a = 0 THEN b
  ELSE IF b = 0 THEN a
  ELSE (IF (a % 2) + (b % 2) > 0 THEN 1 ELSE 0) + 2 * BitOr(a \div 2, b \div 2)

RECURSIVE BitXor(_, _)
BitXor(a, b) ==
  IF a = 0 THEN b
  ELSE IF b = 0 THEN a
  ELSE (((a % 2) + (b % 2)) % 2) + 2 * BitXor(a \div 2, b \div 2)

(* ---------------- primitive.rs: RawInstruction ---------------- *)
RawInstruction(byte1, byte2) == byte1 * 256 + byte2

to_nibbles(raw) ==
  << (raw \div 4096) % 16, (raw \div 256) % 16, (raw \div 16) % 16, raw % 16 >>

nnn(raw) == raw % 4096
nn(raw) == raw % 256
x(raw) == to_nibbles(raw)[2]
y(raw) == to_nibbles(raw)[3]
n(raw) == to_nibbles(raw)[4]

(* validated_struct Address: Address::new(value) is Ok iff value fits 12 bits *)
AddressValid(value) == value = BitAnd(value, 4095)

(* ---------------- decoder.rs: Decoder::decode ---------------- *)
NoInst == [op |-> "None"]

Inst(op, raw) ==
  [op |-> op, x |-> x(raw), y |-> y(raw), n |-> n(raw), nn |-> nn(raw),
   nnn |-> nnn(raw), regop |-> "-", skipif |-> "-"]

(* faulty: an unknown register operation falls back to the plain move *)
DecodeRegOp_lenient(op4) ==
  CASE op4 = 1 -> "Or"
    [] op4 = 2 -> "And"
    [] op4 = 3 -> "Xor"
    [] op4 = 4 -> "Add"
    [] op4 = 5 -> "Sub"
    [] op4 = 7 -> "SubInv"
    [] op4 = 6 -> "ShiftRight"
    [] op4 = 14 -> "ShiftLeft"
    [] OTHER -> "Set"

DecodeRegOp(op4) ==
  CASE op4 = 0 -> "Set"
    [] op4 = 1 -> "Or"
    [] op4 = 2 -> "And"
    [] op4 = 3 -> "Xor"
    [] op4 = 4 -> "Add"
    [] op4 = 5 -> "Sub"
    [] op4 = 7 -> "SubInv"
    [] op4 = 6 -> "ShiftRight"
    [] op4 = 14 -> "ShiftLeft"
    [] OTHER -> "None"

decode(raw) ==
  LET nib == to_nibbles(raw)
      n1 == nib[1]
      n2 == nib[2]
      n3 == nib[3]
      n4 == nib[4]
  IN
  IF n1 = 0 /\ n2 = 0 /\ n3 = 14 /\ n4 = 0 THEN Inst("ClearScreen", raw)
  ELSE IF n1 = 0 /\ n2 = 0 /\ n3 = 14 /\ n4 = 14 THEN Inst("Return", raw)
  ELSE IF n1 = 0 THEN Inst("ExecuteMachineLangRoutine", raw)
  ELSE IF n1 = 13 THEN Inst("Draw", raw)
  ELSE IF n1 = 15 /\ n3 = 2 /\ n4 = 9 THEN Inst("SetFont", raw)
  ELSE IF n1 = 1 THEN Inst("Jump", raw)
  ELSE IF n1 = 11 THEN Inst("JumpWithOffset", raw)
  ELSE IF n1 = 2 THEN Inst("CallSubroutine", raw)
  ELSE IF n1 = 3 THEN [Inst("Skip", raw) EXCEPT !.skipif = "Eq"]
  ELSE IF n1 = 4 THEN [Inst("Skip", raw) EXCEPT !.skipif = "NotEq"]
  ELSE IF n1 = 5 /\ n4 = 0 THEN [Inst("SkipReg", raw) EXCEPT !.skipif = "Eq"]
  ELSE IF n1 = 9 /\ n4 = 0 THEN [Inst("SkipReg", raw) EXCEPT !.skipif = "NotEq"]
  ELSE IF n1 = 15 /\ n3 = 0 /\ n4 = 10 THEN Inst("GetKey", raw)
  ELSE IF n1 = 14 /\ n3 = 9 /\ n4 = 14 THEN [Inst("SkipKeyPress", raw) EXCEPT !.skipif = "Eq"]
  ELSE IF n1 = 14 /\ n3 = 10 /\ n4 = 1 THEN [Inst("SkipKeyPress", raw) EXCEPT !.skipif = "NotEq"]
  ELSE IF n1 = 6 THEN Inst("SetRegImmediate", raw)
  ELSE IF n1 = 7 THEN Inst("AddRegImmediate", raw)
  ELSE IF n1 = 8 THEN
         IF DecodeRegOp(n4) = "None" THEN NoInst
         ELSE [Inst("RegOp", raw) EXCEPT !.regop = DecodeRegOp(n4)]
  ELSE IF n1 = 15 /\ n3 = 5 /\ n4 = 5 THEN Inst("StoreAddr", raw)
  ELSE IF n1 = 15 /\ n3 = 6 /\ n4 = 5 THEN Inst("LoadAddr", raw)
  ELSE IF n1 = 15 /\ n3 = 0 /\ n4 = 7 THEN Inst("GetDelayTimer", raw)
  ELSE IF n1 = 15 /\ n3 = 1 /\ n4 = 5 THEN Inst("SetDelayTimer", raw)
  ELSE IF n1 = 15 /\ n3 = 1 /\ n4 = 8 THEN Inst("SetSoundTimer", raw)
  ELSE IF n1 = 10 THEN Inst("SetIndex", raw)
  ELSE IF n1 = 15 /\ n3 = 1 /\ n4 = 14 THEN Inst("AddIndex", raw)
  ELSE IF n1 = 12 THEN Inst("Random", raw)
  ELSE IF n1 = 15 /\ n3 = 3 /\ n4 = 3 THEN Inst("BinaryDecimalConv", raw)
  ELSE NoInst


(* ---------------- cpu.rs: CPU ---------------- *)
(* memory: [u8; 4096], kept as the finite map of its nonzero bytes *)
MemRead(memory, addr) == IF addr \in DOMAIN memory THEN memory[addr] ELSE 0

MemWrite(memory, addr, value) ==
  IF value = 0
  THEN [a \in (DOMAIN memory) \ {addr} |-> memory[a]]
  ELSE [a \in (DOMAIN memory) \cup {addr} |-> IF a = addr THEN value ELSE memory[a]]

CPU_new ==
  [memory |-> [a \in {} |-> 0],
   index_r |-> 0,
   gen_r |-> [r \in 0..(REGISTER_COUNT - 1) |-> 0],
   stack |-> << >>,
   delay_timer |-> 0,
   sound_timer |-> 0,
   pc_r |-> 0,
   waiting_for_key |-> << >>]

(* a panic of the process (unwrap, expect, index out of bounds, overflow check) *)
Panic(h, why) == IF h.panic = "none" THEN [h EXCEPT !.panic = why] ELSE h
Alive(h) == h.panic = "none"

(* u16 `+` / `+=`: panics when the build checks overflow, wraps otherwise *)
U16AddPanics(h, a, b) == h.config.overflow_checks /\ a + b >= U16
U16Add(a, b) == (a + b) % U16

register_val(h, reg) == h.cpu.gen_r[reg]

register_set(h, reg, value) == [h EXCEPT !.cpu.gen_r[reg] = value]

set_vf(h, value) == [h EXCEPT !.cpu.gen_r[REGISTER_COUNT - 1] = value]

load_from_addr(h, addr) == MemRead(h.cpu.memory, addr)

store_in_addr(h, addr, value) ==
  IF addr >= MEMORY_SIZE THEN Panic(h, "index out of bounds")
  ELSE [h EXCEPT !.cpu.memory = MemWrite(h.cpu.memory, addr, value)]

(* memory[start..end].copy_from_slice(bytes) *)
CopySlice(memory, start, bytes) ==
  LET range == start .. (start + Len(bytes) - 1)
      nonzero == {a \in range : bytes[a - start + 1] # 0}
  IN [a \in ((DOMAIN memory) \ range) \cup nonzero |->
        IF a \in range THEN bytes[a - start + 1] ELSE memory[a]]

(* faulty: a slice that ends at the last byte of memory is refused *)
store_memory_slice_refusing_last_byte(h, start, bytes) ==
  IF start + Len(bytes) >= MEMORY_SIZE
  THEN [ok |-> FALSE, h |-> h]
  ELSE [ok |-> TRUE, h |-> [h EXCEPT !.cpu.memory = CopySlice(h.cpu.memory, start, bytes)]]

(* Result<(), ()>: ok = FALSE is Err(()) and leaves the memory alone *)
store_memory_slice(h, start, bytes) ==
  IF start + Len(bytes) > MEMORY_SIZE
  THEN [ok |-> FALSE, h |-> h]
  ELSE [ok |-> TRUE, h |-> [h EXCEPT !.cpu.memory = CopySlice(h.cpu.memory, start, bytes)]]

increment_pc(h) ==
  IF U16AddPanics(h, h.cpu.pc_r, INSTRUCTION_SIZE_B) THEN Panic(h, "attempt to add with overflow")
  ELSE [h EXCEPT !.cpu.pc_r = U16Add(h.cpu.pc_r, INSTRUCTION_SIZE_B)]

get_pc(h) == h.cpu.pc_r

jump_to(h, addr) == [h EXCEPT !.cpu.pc_r = addr]

FetchPanics(h) == h.cpu.pc_r + 1 >= MEMORY_SIZE

fetch_current_instruction(h) ==
  RawInstruction(MemRead(h.cpu.memory, h.cpu.pc_r), MemRead(h.cpu.memory, h.cpu.pc_r + 1))

get_index(h) == h.cpu.index_r

set_index(h, value) == [h EXCEPT !.cpu.index_r = value]

(* faulty: the delay timer wraps below zero *)
dec_delay_wrapping(h) == [h EXCEPT !.cpu.delay_timer = (h.cpu.delay_timer - 1) % U8]

dec_delay(h) ==
  IF h.cpu.delay_timer > 0 THEN [h EXCEPT !.cpu.delay_timer = h.cpu.delay_timer - 1] ELSE h

dec_sound(h) ==
  IF h.cpu.sound_timer > 0 THEN [h EXCEPT !.cpu.sound_timer = h.cpu.sound_timer - 1] ELSE h

set_delay_timer(h, value) == [h EXCEPT !.cpu.delay_timer = value]
get_delay_timer(h) == h.cpu.delay_timer
set_sound_timer(h, value) == [h EXCEPT !.cpu.sound_timer = value]
get_sound_timer(h) == h.cpu.sound_timer

(* faulty: the address of the next instruction is pushed *)
push_stack_next_instruction(h, addr) ==
  [h EXCEPT !.cpu.stack = Append(h.cpu.stack, addr + INSTRUCTION_SIZE_B)]

push_stack(h, addr) == [h EXCEPT !.cpu.stack = Append(h.cpu.stack, addr)]

(* pop_stack: the popped hardware; the caller tests for the empty stack (None) *)
pop_stack(h) == [h EXCEPT !.cpu.stack = SubSeq(h.cpu.stack, 1, Len(h.cpu.stack) - 1)]

(* faulty: the immediate add reports its carry in VF *)
add_reg_with_carry(h, reg, value) ==
  set_vf(register_set(h, reg, (register_val(h, reg) + value) % U8),
         IF register_val(h, reg) + value >= U8 THEN 1 ELSE 0)

add_reg(h, reg, value) == register_set(h, reg, (register_val(h, reg) + value) % U8)

add_index(h, value) ==
  IF U16AddPanics(h, h.cpu.index_r, value) THEN Panic(h, "attempt to add with overflow")
  ELSE [h EXCEPT !.cpu.index_r = U16Add(h.cpu.index_r, value)]

(* store at index_r + off, with the u16 addition the code makes for off > 0 *)
StoreAtIndex(h, off, value) ==
  IF ~Alive(h) THEN h
  ELSE IF U16AddPanics(h, h.cpu.index_r, off) THEN Panic(h, "attempt to add with overflow")
  ELSE store_in_addr(h, U16Add(h.cpu.index_r, off), value)

(* faulty: the tens digit is not reduced modulo 10 *)
binary_decimal_conv_wide_tens(h, reg) ==
  LET value == register_val(h, reg)
      first_digit == value \div 100
      second_digit == value \div 10
      last_digit == value % 10
  IN StoreAtIndex(StoreAtIndex(StoreAtIndex(h, 0, first_digit), 1, second_digit), 2, last_digit)

binary_decimal_conv(h, reg) ==
  LET value == register_val(h, reg)
      first_digit == value \div 100
      second_digit == (value % 100) \div 10
      last_digit == value % 10
  IN StoreAtIndex(StoreAtIndex(StoreAtIndex(h, 0, first_digit), 1, second_digit), 2, last_digit)

RECURSIVE LoadRegistersFrom(_, _, _)
LoadRegistersFrom(h, i, up_to_reg) ==
  IF i > up_to_reg THEN h
  ELSE IF U16AddPanics(h, h.cpu.index_r, i) THEN Panic(h, "attempt to add with overflow")
  ELSE IF U16Add(h.cpu.index_r, i) >= MEMORY_SIZE THEN Panic(h, "index out of bounds")
  ELSE LoadRegistersFrom(register_set(h, i, load_from_addr(h, U16Add(h.cpu.index_r, i))),
                         i + 1, up_to_reg)

(* faulty: the loop runs over 0..x instead of 0..=x *)
load_registers_exclusive(h, up_to_reg) == LoadRegistersFrom(h, 0, up_to_reg - 1)

load_registers(h, up_to_reg) == LoadRegistersFrom(h, 0, up_to_reg)

RECURSIVE StoreRegistersFrom(_, _, _)
StoreRegistersFrom(h, i, up_to_reg) ==
  IF i > up_to_reg \/ ~Alive(h) THEN h
  ELSE StoreRegistersFrom(StoreAtIndex(h, i, register_val(h, i)), i + 1, up_to_reg)

store_registers(h, up_to_reg) == StoreRegistersFrom(h, 0, up_to_reg)

load_registers_cosmac(h, up_to_reg) ==
  LET h1 == load_registers(h, up_to_reg)
  IN IF Alive(h1) THEN add_index(h1, up_to_reg + 1) ELSE h1

store_registers_cosmac(h, up_to_reg) ==
  LET h1 == store_registers(h, up_to_reg)
  IN IF Alive(h1) THEN add_index(h1, up_to_reg + 1) ELSE h1

is_waiting_for_key(h) == h.cpu.waiting_for_key # << >>

(* a faulty latch that also steps over the opcode *)
start_waiting_for_key_and_advance(h, reg) ==
  [h EXCEPT !.cpu.waiting_for_key = << reg >>,
            !.cpu.pc_r = U16Add(h.cpu.pc_r, INSTRUCTION_SIZE_B)]

start_waiting_for_key(h, reg) == [h EXCEPT !.cpu.waiting_for_key = << reg >>]

(* Option::take: the register is read by the caller before the latch is emptied *)
stop_waiting_for_key(h) == [h EXCEPT !.cpu.waiting_for_key = << >>]


(* ---------------- input: Chip8KeyState (16 pressed flags) ---------------- *)
Chip8KeyState_default == {}
press(key_state, key) == key_state \cup {key}
release(key_state, key) == key_state \ {key}
(* a key above 0xF is never pressed *)
is_key_pressed(key_state, key) == IF key <= 15 THEN key \in key_state ELSE FALSE

(* ---------------- screen.rs: Screen ---------------- *)
get_idx(px, py) == py * N_COLS + px

Screen_new == [pixels |-> {}, debug_info |-> << >>]

(* Option<bool>: << >> is None *)
get_pixel(h, px, py) ==
  IF px >= N_COLS \/ py >= N_ROWS THEN << >>
  ELSE << get_idx(px, py) \in h.screen.pixels >>

(* faulty: a pixel that is on stays on (the sprite is OR-ed onto the frame) *)
set_pixel_never_off(h, px, py, value) ==
  IF px >= N_COLS \/ py >= N_ROWS THEN h
  ELSE IF value THEN [h EXCEPT !.screen.pixels = h.screen.pixels \cup {get_idx(px, py)}]
  ELSE h

set_pixel(h, px, py, value) ==
  IF px >= N_COLS \/ py >= N_ROWS THEN h
  ELSE IF value THEN [h EXCEPT !.screen.pixels = h.screen.pixels \cup {get_idx(px, py)}]
  ELSE [h EXCEPT !.screen.pixels = h.screen.pixels \ {get_idx(px, py)}]

clear(h) == [h EXCEPT !.screen.pixels = {}]

set_debug_info(h, debug_info) == [h EXCEPT !.screen.debug_info = << debug_info >>]

(* flush: the frame written to the terminal *)
flush(h) == [pixels |-> h.screen.pixels, debug_info |-> h.screen.debug_info]

(* ---------------- hardware.rs: Hardware ---------------- *)
Hardware_new(config) ==
  [cpu |-> CPU_new,
   screen |-> Screen_new,
   key_state |-> Chip8KeyState_default,
   config |-> config,
   playback_state |-> "Running",
   panic |-> "none"]

set_key_state(h, key_state) == [h EXCEPT !.key_state = key_state]

(* a faulty edge rule that ignores the variant *)
expected_kind_press_only(h) == "Press"

expected_kind(h) == IF h.config.version = "Cosmac" THEN "Release" ELSE "Press"

(* faulty: the latch taken for a key edge of the wrong kind is not put back *)
handle_key_when_waiting_dropping_latch(h, key, kind) ==
  IF is_waiting_for_key(h)
  THEN LET reg == h.cpu.waiting_for_key[1]
           h1 == stop_waiting_for_key(h)
       IN IF kind = expected_kind(h)
          THEN increment_pc(register_set(h1, reg, key))
          ELSE h1
  ELSE h

handle_key_when_waiting(h, key, kind) ==
  IF is_waiting_for_key(h)
  THEN LET reg == h.cpu.waiting_for_key[1]
           h1 == stop_waiting_for_key(h)
       IN IF kind = expected_kind(h)
          THEN increment_pc(register_set(h1, reg, key))
          ELSE start_waiting_for_key(h1, reg)
  ELSE h

load_rom(h, bytes) ==
  LET font == store_memory_slice(h, FONT_START_ADDR, FONT)
      rom == store_memory_slice(font.h, ENTRY_POINT, bytes)
  IN IF ~rom.ok THEN [ok |-> FALSE, h |-> font.h]
     ELSE [ok |-> TRUE, h |-> jump_to(rom.h, ENTRY_POINT)]

(* faulty: the carry is missed when the sum is exactly 256 *)
overflowing_add_above(a, b) == [result |-> (a + b) % U8, overflow |-> a + b > U8]

(* u8::overflowing_add, u8::overflowing_sub *)
overflowing_add(a, b) == [result |-> (a + b) % U8, overflow |-> a + b >= U8]
overflowing_sub(a, b) == [result |-> (a - b) % U8, overflow |-> a < b]

(* faulty: the flag of the usual CHIP-8 subtraction, set also for equal operands *)
no_borrow_or_equal(a, b) == IF a >= b THEN 1 ELSE 0

(* if a > b { 1 } else { 0 } *)
no_borrow(a, b) == IF a > b THEN 1 ELSE 0

(* faulty: the shift always takes Vx *)
shift_operand_vx(h, vx, vy) == vx

(* the value a shift works on: Vy on COSMAC, Vx otherwise *)
shift_operand(h, vx, vy) == IF h.config.version = "Cosmac" THEN vy ELSE vx

execute_reg_op(h, reg_op, regx, regy) ==
  LET vx == register_val(h, regx)
      vy == register_val(h, regy)
      cosmac == h.config.version = "Cosmac"
  IN CASE reg_op = "Set" -> register_set(h, regx, vy)
       [] reg_op = "Or" -> register_set(h, regx, BitOr(vx, vy))
       [] reg_op = "Xor" -> register_set(h, regx, BitXor(vx, vy))
       [] reg_op = "And" -> register_set(h, regx, BitAnd(vx, vy))
       [] reg_op = "Add" ->
            set_vf(register_set(h, regx, overflowing_add(vx, vy).result),
                   IF overflowing_add(vx, vy).overflow THEN 1 ELSE 0)
       [] reg_op = "Sub" ->
            set_vf(register_set(h, regx, overflowing_sub(vx, vy).result), no_borrow(vx, vy))
       [] reg_op = "SubInv" ->
            set_vf(register_set(h, regx, overflowing_sub(vy, vx).result), no_borrow(vy, vx))
       [] reg_op = "ShiftLeft" ->
            LET val == shift_operand(h, vx, vy)
                h1 == IF cosmac THEN register_set(h, regx, vy) ELSE h
            IN register_set(set_vf(h1, BitAnd(val, 128) \div 128), regx, (val * 2) % U8)
       [] reg_op = "ShiftRight" ->
            LET val == shift_operand(h, vx, vy)
                h1 == IF cosmac THEN register_set(h, regx, vy) ELSE h
            IN register_set(set_vf(h1, BitAnd(val, 1)), regx, val \div 2)

RECURSIVE DrawBits(_, _, _, _, _)
DrawBits(h, sprite_data, start_x, py, bit_pos) ==
  IF bit_pos >= 8 THEN h
  ELSE LET px == start_x + bit_pos
           sprite_bit == (sprite_data \div (2 ^ (7 - bit_pos))) % 2
       IN IF px >= N_COLS THEN h
          ELSE IF sprite_bit = 1
          THEN IF get_pixel(h, px, py)[1]
               THEN DrawBits(set_vf(set_pixel(h, px, py, FALSE), 1),
                             sprite_data, start_x, py, bit_pos + 1)
               ELSE DrawBits(set_pixel(h, px, py, TRUE), sprite_data, start_x, py, bit_pos + 1)
          ELSE DrawBits(h, sprite_data, start_x, py, bit_pos + 1)

RECURSIVE DrawRows(_, _, _, _, _, _)
DrawRows(h, start_x, start_y, index_addr, row, row_count) ==
  IF row >= row_count THEN h
  ELSE LET py == start_y + row
       IN IF py >= N_ROWS THEN h
          ELSE IF U16AddPanics(h, index_addr, row) THEN Panic(h, "attempt to add with overflow")
          ELSE IF U16Add(index_addr, row) >= MEMORY_SIZE THEN Panic(h, "index out of bounds")
          ELSE DrawRows(DrawBits(h, load_from_addr(h, U16Add(index_addr, row)), start_x, py, 0),
                        start_x, start_y, index_addr, row + 1, row_count)

(* faulty: the start coordinate is not taken modulo the screen size *)
execute_draw_unwrapped_start(h, regx, regy, row_count) ==
  LET start_x == register_val(h, regx)
      start_y == register_val(h, regy)
      h1 == set_vf(h, 0)
  IN DrawRows(h1, start_x, start_y, get_index(h1), 0, row_count)

(* faulty: VF is not cleared before the rows are drawn *)
execute_draw_vf_kept(h, regx, regy, row_count) ==
  LET start_x == register_val(h, regx) % N_COLS
      start_y == register_val(h, regy) % N_ROWS
  IN DrawRows(h, start_x, start_y, get_index(h), 0, row_count)

execute_draw(h, regx, regy, row_count) ==
  LET start_x == register_val(h, regx) % N_COLS
      start_y == register_val(h, regy) % N_ROWS
      h1 == set_vf(h, 0)
  IN DrawRows(h1, start_x, start_y, get_index(h1), 0, row_count)

SkipTaken(skipif, cond) == (skipif = "Eq" /\ cond) \/ (skipif = "NotEq" /\ ~cond)

(* the match of execute_instruction, before the trailing increment_pc;             *)
(* done = TRUE where the arm returns early                                          *)
ExecuteArm(h, inst, random) ==
  LET op == inst.op
      cont(hh) == [h |-> hh, done |-> FALSE]
      ret(hh) == [h |-> hh, done |-> TRUE]
  IN CASE op = "ClearScreen" -> cont(clear(h))
       [] op = "Jump" -> ret(jump_to(h, inst.nnn))
       [] op = "RegOp" -> cont(execute_reg_op(h, inst.regop, inst.x, inst.y))
       [] op = "SetRegImmediate" -> cont(register_set(h, inst.x, inst.nn))
       [] op = "AddRegImmediate" -> cont(add_reg(h, inst.x, inst.nn))
       [] op = "SetIndex" -> cont(set_index(h, inst.nnn))
       [] op = "AddIndex" -> cont(add_index(h, register_val(h, inst.x)))
       [] op = "Draw" -> cont(execute_draw(h, inst.x, inst.y, inst.n))
       [] op = "LoadAddr" ->
            cont(IF h.config.version = "Cosmac" THEN load_registers_cosmac(h, inst.x)
                 ELSE load_registers(h, inst.x))
       [] op = "StoreAddr" ->
            cont(IF h.config.version = "Cosmac" THEN store_registers_cosmac(h, inst.x)
                 ELSE store_registers(h, inst.x))
       [] op = "SetFont" ->
            cont(set_index(h, FONT_START_ADDR
                              + BitAnd(register_val(h, inst.x), 15) * BYTES_PER_FONT))
       [] op = "JumpWithOffset" ->
            LET addr_to_jump ==
                  IF h.config.version = "Cosmac"
                  THEN inst.nnn + register_val(h, 0)
                  ELSE inst.nnn + register_val(h, (inst.nnn \div 256) % 16)
            IN IF AddressValid(addr_to_jump) THEN ret(jump_to(h, addr_to_jump))
               ELSE ret(Panic(h, "called Result::unwrap() on an Err value"))
       [] op = "CallSubroutine" -> ret(jump_to(push_stack(h, get_pc(h)), inst.nnn))
       [] op = "Return" ->
            IF h.cpu.stack = << >> THEN ret(Panic(h, "CRITICAL: Stack is empty"))
            ELSE LET return_addr == h.cpu.stack[Len(h.cpu.stack)]
                     h1 == pop_stack(h)
                 IN IF AddressValid(return_addr) THEN cont(jump_to(h1, return_addr))
                    ELSE ret(Panic(h1, "called Result::unwrap() on an Err value"))
       [] op = "Skip" ->
            cont(IF SkipTaken(inst.skipif, register_val(h, inst.x) = inst.nn)
                 THEN increment_pc(h) ELSE h)
       [] op = "SkipReg" ->
            cont(IF SkipTaken(inst.skipif, register_val(h, inst.x) = register_val(h, inst.y))
                 THEN increment_pc(h) ELSE h)
       [] op = "SkipKeyPress" ->
            cont(IF SkipTaken(inst.skipif, is_key_pressed(h.key_state, register_val(h, inst.x)))
                 THEN increment_pc(h) ELSE h)
       [] op = "GetKey" -> ret(start_waiting_for_key(h, inst.x))
       [] op = "Random" -> cont(register_set(h, inst.x, BitAnd(inst.nn, random)))
       [] op = "SetSoundTimer" -> cont(set_sound_timer(h, register_val(h, inst.x)))
       [] op = "SetDelayTimer" -> cont(set_delay_timer(h, register_val(h, inst.x)))
       [] op = "GetDelayTimer" -> cont(register_set(h, inst.x, get_delay_timer(h)))
       [] op = "BinaryDecimalConv" -> cont(binary_decimal_conv(h, inst.x))
       [] op = "Invalid" -> ret(Panic(h, "Invalid instruction encountered"))
       [] op = "ExecuteMachineLangRoutine" -> cont(h)

(* faulty: the trailing increment_pc is missing *)
execute_instruction_no_advance(h, inst, random) == ExecuteArm(h, inst, random).h

execute_instruction(h, inst, random) ==
  LET arm == ExecuteArm(h, inst, random)
  IN IF arm.done \/ ~Alive(arm.h) THEN arm.h ELSE increment_pc(arm.h)

(* DebugInfo of the current hardware state *)
get_debug_info(h) ==
  LET raw_inst == fetch_current_instruction(h)
      decoded == decode(raw_inst)
  IN [current_pc |-> get_pc(h),
      raw_instruction |-> raw_inst,
      decoded_instruction |-> IF decoded = NoInst THEN "Invalid" ELSE decoded.op,
      index_register |-> get_index(h),
      delay_timer |-> get_delay_timer(h),
      sound_timer |-> get_sound_timer(h),
      registers |-> h.cpu.gen_r,
      key_state |-> h.key_state,
      playback_mode |-> h.playback_state]

(* update_debug_info, given the playback states waiting in the receiver (all drained) *)
update_debug_info(h, received) ==
  LET h1 == IF received = << >> THEN h
            ELSE [h EXCEPT !.playback_state = received[Len(received)]]
  IN IF FetchPanics(h1) THEN Panic(h1, "index out of bounds")
     ELSE set_debug_info(h1, get_debug_info(h1))


(* ======================= scheduler.rs ======================= *)
VARIABLES
  hardware,       \* chip8.hardware: cpu, screen, key_state, config, playback_state
  terminal,       \* the last frame Screen::flush wrote, << >> before the first
  hard_chan,      \* mpsc channel of HardwareMessage (hard_send -> hard_recv)
  clock_chan,     \* mpsc channel of ClockControlMessage
  playback_chan,  \* mpsc channel of PlaybackMode
  clock,          \* ClockSheduler::run: position, is_running, single_step_pending
  timer,          \* TimerScheduler::run: position
  screen_task,    \* ScreenScheduler::run: position
  input,          \* InputScheduler::run: position, key_state, the event in hand
  orchestrator,   \* Chip8Orchaestrator::run: "select" while the select! is pending
  debug,          \* chip8.config.debug
  hist            \* history: ticks taken, messages sent and handled, commands handled;
                  \* in SpecExec: the hardware before the last execute, its instruction

vars == << hardware, terminal, hard_chan, clock_chan, playback_chan, clock, timer,
           screen_task, input, orchestrator, debug, hist >>

Versions == {"Cosmac", "Chip48", "SuperChip"}
Producers == {"clock", "timer", "screen", "input"}

(* inputs of the model *)
Keys == {5}
Commands == {"Quit", "DebugPlayPause", "DebugStep"}
Kinds == {"Press", "Release"}
RandomBytes == {0, 255}

(* 6002 F015 F018 F10A 1200:                                          *)
(* V0 <- 2; delay <- V0; sound <- V0; GET_KEY V1; JUMP 0x200          *)
Roms == { << 96, 2, 240, 21, 240, 24, 241, 10, 18, 0 >> }

InputEvents ==
  [type : {"Chip8KeyEvent"}, key : Keys, kind : Kinds, command : {"-"}]
  \cup [type : {"CommandEvent"}, key : {0}, kind : Kinds, command : Commands]

HardwareMessage(type, key, kind, key_state, src, seq) ==
  [type |-> type, key |-> key, kind |-> kind, key_state |-> key_state,
   src |-> src, seq |-> seq]

PlainMessage(type, src, seq) == HardwareMessage(type, 0, "-", {}, src, seq)

HardFull == Len(hard_chan) >= HardChanCap
(* faulty: the futures go on after the select! has completed *)
PendingAfterReturn == Alive(hardware)

Pending == orchestrator = "select" /\ Alive(hardware)

(* The five futures share one task: another future is polled only when the     *)
(* clock is parked on an await that is not ready.  With single_step_pending    *)
(* set, the `async {}` branch of the clock's select! is ready at once, so the  *)
(* clock does not park there.                                                  *)
ClockParked == ~(clock.pc = "select" /\ clock.single_step_pending)
OthersPolled == Pending /\ ClockParked

(* How far one run goes: the number of CPU ticks, timer ticks, screen ticks and  *)
(* input events it takes.  One budget follows the program through its           *)
(* instructions and timers with a single input event, the other follows the     *)
(* control commands with the CPU clock out of the picture.                      *)
Budgets ==
  { [cpu |-> MaxCpuTicks, timer |-> MaxTimerTicks, screen |-> MaxScreenTicks, inputs |-> 1],
    [cpu |-> 0, timer |-> 0, screen |-> 1, inputs |-> MaxInputs] }

InitHist(budget) ==
  [budget |-> budget,
   cpu_ticks |-> 0, timer_ticks |-> 0, screen_ticks |-> 0, inputs |-> 0,
   sent |-> [p \in Producers |-> 0],
   handled |-> [p \in Producers |-> 0],
   steps |-> 0, toggles |-> 0, last_ctl |-> "none", prev_ctl |-> "none",
   stepped |-> FALSE, dec_latched |-> FALSE]

(* a faulty start that runs whatever the debug flag *)
initial_is_running_always(config_debug) == TRUE

(* clock_scheulder.run(.., !chip8.config.debug, ..) *)
initial_is_running(config_debug) == ~config_debug

Init ==
  /\ debug \in BOOLEAN
  /\ \E version \in Versions, rom \in Roms :
       hardware = load_rom(Hardware_new([version |-> version, overflow_checks |-> TRUE]), rom).h
  /\ terminal = << >>
  /\ hard_chan = << >>
  /\ clock_chan = << >>
  /\ playback_chan = << >>
  /\ clock = [pc |-> "start", is_running |-> initial_is_running(debug),
              single_step_pending |-> FALSE,
              out_playback |-> << >>]
  /\ timer = [out |-> << >>]
  /\ screen_task = [out |-> << >>]
  /\ input = [key_state |-> Chip8KeyState_default, out |-> << >>, out_cmd |-> << >>]
  /\ orchestrator = "select"
  /\ \E budget \in Budgets : hist = InitHist(budget)

(* ---------------- HardwareScheduler::run, one arm per message ---------------- *)
Receive(type) ==
  /\ OthersPolled
  /\ hard_chan # << >>
  /\ Head(hard_chan).type = type
  /\ hard_chan' = Tail(hard_chan)

Handled(m) ==
  hist' = [hist EXCEPT !.handled[m.src] = m.seq]

UNCH_tasks == UNCHANGED << clock_chan, clock, timer, screen_task, input, orchestrator, debug >>

(* faulty: an opcode that does not decode is stepped over *)
run_ExecuteInstruction_skipping_undecoded(h, random) ==
  IF is_waiting_for_key(h) THEN h
  ELSE IF FetchPanics(h) THEN Panic(h, "index out of bounds")
  ELSE LET raw == fetch_current_instruction(h)
       IN IF decode(raw) = NoInst
          THEN increment_pc(h)
          ELSE execute_instruction(h, decode(raw), random)

(* the ExecuteInstruction arm on hardware h *)
run_ExecuteInstruction(h, random) ==
  IF is_waiting_for_key(h) THEN h
  ELSE IF FetchPanics(h) THEN Panic(h, "index out of bounds")
  ELSE LET raw == fetch_current_instruction(h)
       IN IF decode(raw) = NoInst
          THEN Panic(h, "called Option::unwrap() on a None value")
          ELSE execute_instruction(h, decode(raw), random)

RandomChoices(h) ==
  IF ~is_waiting_for_key(h) /\ ~FetchPanics(h)
     /\ decode(fetch_current_instruction(h)).op = "Random"
  THEN RandomBytes ELSE {0}

HwExecuteInstruction ==
  /\ Receive("ExecuteInstruction")
  /\ \E random \in RandomChoices(hardware) :
       hardware' = run_ExecuteInstruction(hardware, random)
  /\ Handled(Head(hard_chan))
  /\ UNCHANGED << terminal, playback_chan >>
  /\ UNCH_tasks

run_HandleKeyEvent(h, m) == handle_key_when_waiting(h, m.key, m.kind)

HwHandleKeyEvent ==
  /\ Receive("HandleKeyEvent")
  /\ hardware' = run_HandleKeyEvent(hardware, Head(hard_chan))
  /\ Handled(Head(hard_chan))
  /\ UNCHANGED << terminal, playback_chan >>
  /\ UNCH_tasks

(* faulty: the timers stand still while the CPU waits for a key *)
run_DecrementTimers_unless_waiting(h) ==
  IF is_waiting_for_key(h) THEN h ELSE dec_sound(dec_delay(h))

run_DecrementTimers(h) == dec_sound(dec_delay(h))

HwDecrementTimers ==
  /\ Receive("DecrementTimers")
  /\ hardware' = run_DecrementTimers(hardware)
  /\ hist' = [hist EXCEPT !.handled["timer"] = Head(hard_chan).seq,
                          !.dec_latched = hist.dec_latched
                                          \/ (is_waiting_for_key(hardware)
                                              /\ hardware.cpu.delay_timer > 0)]
  /\ UNCHANGED << terminal, playback_chan >>
  /\ UNCH_tasks

HwUpdateKeyState ==
  /\ Receive("UpdateKeyState")
  /\ hardware' = set_key_state(hardware, Head(hard_chan).key_state)
  /\ Handled(Head(hard_chan))
  /\ UNCHANGED << terminal, playback_chan >>
  /\ UNCH_tasks

HwFlushScreen ==
  /\ Receive("FlushScreen")
  /\ terminal' = << flush(hardware) >>
  /\ Handled(Head(hard_chan))
  /\ UNCHANGED << hardware, playback_chan >>
  /\ UNCH_tasks

HwUpdateDebugInfo ==
  /\ Receive("UpdateDebugInfo")
  /\ hardware' = update_debug_info(hardware, playback_chan)
  /\ playback_chan' = << >>
  /\ Handled(Head(hard_chan))
  /\ UNCHANGED << terminal >>
  /\ UNCH_tasks


(* ---------------- sending on a bounded mpsc channel ---------------- *)
Min(a, b) == IF a <= b THEN a ELSE b

(* send().await for each message of out in order: those that find a free slot go *)
(* into the channel at once, the sender stays blocked on the first that does not *)
(* faulty: a channel that takes every message, whatever its capacity *)
Fits_without_capacity(chan, out, cap) == Len(out)

Fits(chan, out, cap) == Min(Len(out), cap - Len(chan))

(* faulty: a channel that puts new messages in front of the waiting ones *)
SentAtFront(chan, out, cap) == SubSeq(out, 1, Fits(chan, out, cap)) \o chan

Sent(chan, out, cap) == chan \o SubSeq(out, 1, Fits(chan, out, cap))
Blocked(chan, out, cap) == SubSeq(out, Fits(chan, out, cap) + 1, Len(out))

(* faulty: the keypad is shared, every task step copies the pump's keys into it *)
UNCH_hw_shared_keypad ==
  /\ terminal' = terminal
  /\ hardware' = set_key_state(hardware, input'.key_state)

UNCH_hw == UNCHANGED << hardware, terminal >>

(* ---------------- ClockSheduler::run ---------------- *)
PlaybackModeOf(is_running) == IF is_running THEN "Running" ELSE "Paused"

(* playback_state_sender is Some exactly when debug is set *)
SendPlayback(c, mode) ==
  IF debug
  THEN /\ playback_chan' = Sent(playback_chan, << mode >>, PlaybackChanCap)
       /\ clock' = [c EXCEPT !.out_playback = Blocked(playback_chan, << mode >>, PlaybackChanCap),
                             !.pc = IF Blocked(playback_chan, << mode >>, PlaybackChanCap) = << >>
                                    THEN "select" ELSE "send_playback"]
  ELSE /\ playback_chan' = playback_chan
       /\ clock' = [c EXCEPT !.pc = "select"]

ClockStart ==
  /\ Pending
  /\ clock.pc = "start"
  /\ SendPlayback(clock, PlaybackModeOf(clock.is_running))
  /\ UNCHANGED << hard_chan, clock_chan, timer, screen_task, input, orchestrator, debug, hist >>
  /\ UNCH_hw

ClockReceive(message) ==
  /\ Pending
  /\ clock.pc = "select"
  /\ clock_chan # << >>
  /\ Head(clock_chan) = message
  /\ clock_chan' = Tail(clock_chan)

ClockTogglePausePlay ==
  /\ ClockReceive("TogglePausePlay")
  /\ SendPlayback([clock EXCEPT !.is_running = ~clock.is_running],
                  PlaybackModeOf(~clock.is_running))
  /\ hist' = [hist EXCEPT !.toggles = hist.toggles + 1,
                          !.last_ctl = "TogglePausePlay", !.prev_ctl = hist.last_ctl,
                          !.stepped = FALSE]
  /\ UNCHANGED << hard_chan, timer, screen_task, input, orchestrator, debug >>
  /\ UNCH_hw

ClockStep ==
  /\ ClockReceive("Step")
  /\ SendPlayback([clock EXCEPT !.single_step_pending = TRUE], "Stepping")
  /\ hist' = [hist EXCEPT !.steps = hist.steps + 1,
                          !.last_ctl = "Step", !.prev_ctl = hist.last_ctl,
                          !.stepped = FALSE]
  /\ UNCHANGED << hard_chan, timer, screen_task, input, orchestrator, debug >>
  /\ UNCH_hw

(* Shutdown: the loop breaks, run returns, and the select! of the orchestrator *)
(* completes with it, dropping the other four futures                          *)
ClockShutdown ==
  /\ ClockReceive("Shutdown")
  /\ clock' = [clock EXCEPT !.pc = "done"]
  /\ orchestrator' = "returned"
  /\ UNCHANGED << hard_chan, playback_chan, timer, screen_task, input, debug, hist >>
  /\ UNCH_hw

ClockSendPlayback ==
  /\ Pending
  /\ clock.pc = "send_playback"
  /\ Len(playback_chan) < PlaybackChanCap
  /\ playback_chan' = playback_chan \o clock.out_playback
  /\ clock' = [clock EXCEPT !.out_playback = << >>, !.pc = "select"]
  /\ UNCHANGED << hard_chan, clock_chan, timer, screen_task, input, orchestrator, debug, hist >>
  /\ UNCH_hw

(* hardware_sender.send(ExecuteInstruction) of the branch that is now at `branch` *)
ClockSendExecute(c, branch) ==
  LET m == PlainMessage("ExecuteInstruction", "clock", hist.sent["clock"] + 1)
  IN IF HardFull
     THEN /\ clock' = [c EXCEPT !.pc = branch]
          /\ UNCHANGED hard_chan
          /\ hist' = IF c.pc = "select" /\ branch = "send_tick"
                     THEN [hist EXCEPT !.cpu_ticks = hist.cpu_ticks + 1] ELSE hist
     ELSE /\ hard_chan' = Append(hard_chan, m)
          /\ clock' = [c EXCEPT !.pc = "select",
                                !.single_step_pending =
                                   IF branch = "send_step" THEN FALSE ELSE c.single_step_pending]
          /\ hist' = [hist EXCEPT !.sent["clock"] = m.seq,
                                  !.cpu_ticks = IF c.pc = "select" /\ branch = "send_tick"
                                                THEN hist.cpu_ticks + 1 ELSE hist.cpu_ticks,
                                  !.stepped = (branch = "send_step") \/ hist.stepped]

(* a faulty tick branch without the `if is_running` precondition *)
ClockTickUnguarded ==
  /\ Pending
  /\ clock.pc = "select"
  /\ hist.cpu_ticks < hist.budget.cpu
  /\ ClockSendExecute(clock, "send_tick")
  /\ UNCHANGED << clock_chan, playback_chan, timer, screen_task, input, orchestrator, debug >>
  /\ UNCH_hw

ClockTick ==
  /\ Pending
  /\ clock.pc = "select"
  /\ clock.is_running
  /\ hist.cpu_ticks < hist.budget.cpu
  /\ ClockSendExecute(clock, "send_tick")
  /\ UNCHANGED << clock_chan, playback_chan, timer, screen_task, input, orchestrator, debug >>
  /\ UNCH_hw

ClockSingleStep ==
  /\ Pending
  /\ clock.pc = "select"
  /\ clock.single_step_pending
  /\ ClockSendExecute(clock, "send_step")
  /\ UNCHANGED << clock_chan, playback_chan, timer, screen_task, input, orchestrator, debug >>
  /\ UNCH_hw

ClockSendBlocked ==
  /\ Pending
  /\ clock.pc \in {"send_tick", "send_step"}
  /\ ~HardFull
  /\ ClockSendExecute(clock, clock.pc)
  /\ UNCHANGED << clock_chan, playback_chan, timer, screen_task, input, orchestrator, debug >>
  /\ UNCH_hw

ClockRun ==
  \/ ClockStart
  \/ ClockTogglePausePlay
  \/ ClockStep
  \/ ClockShutdown
  \/ ClockSendPlayback
  \/ ClockTick
  \/ ClockSingleStep
  \/ ClockSendBlocked


(* ---------------- TimerScheduler::run ---------------- *)
TimerTick ==
  /\ OthersPolled
  /\ timer.out = << >>
  /\ hist.timer_ticks < hist.budget.timer
  /\ LET out == << PlainMessage("DecrementTimers", "timer", hist.sent["timer"] + 1) >>
     IN /\ hard_chan' = Sent(hard_chan, out, HardChanCap)
        /\ timer' = [timer EXCEPT !.out = Blocked(hard_chan, out, HardChanCap)]
  /\ hist' = [hist EXCEPT !.timer_ticks = hist.timer_ticks + 1,
                          !.sent["timer"] = hist.sent["timer"] + 1]
  /\ UNCHANGED << clock_chan, playback_chan, clock, screen_task, input, orchestrator, debug >>
  /\ UNCH_hw

TimerSendBlocked ==
  /\ OthersPolled
  /\ timer.out # << >>
  /\ ~HardFull
  /\ hard_chan' = Sent(hard_chan, timer.out, HardChanCap)
  /\ timer' = [timer EXCEPT !.out = Blocked(hard_chan, timer.out, HardChanCap)]
  /\ UNCHANGED << clock_chan, playback_chan, clock, screen_task, input, orchestrator, debug, hist >>
  /\ UNCH_hw

(* ---------------- ScreenScheduler::run ---------------- *)
(* The screen clock never stops: beyond the ticks of the budget, the tick the *)
(* clock is waiting for (a full playback channel is emptied only by            *)
(* UpdateDebugInfo) is still taken.                                            *)
UpdateDebugInfoInFlight == \E i \in 1..Len(hard_chan) : hard_chan[i].type = "UpdateDebugInfo"

ScreenTickAwaited ==
  /\ clock.pc \in {"start", "send_playback"}
  /\ Len(playback_chan) >= PlaybackChanCap
  /\ ~UpdateDebugInfoInFlight

ScreenTick ==
  /\ OthersPolled
  /\ screen_task.out = << >>
  /\ hist.screen_ticks < hist.budget.screen \/ ScreenTickAwaited
  /\ LET s0 == hist.sent["screen"]
         out == IF debug
                THEN << PlainMessage("UpdateDebugInfo", "screen", s0 + 1),
                        PlainMessage("FlushScreen", "screen", s0 + 2) >>
                ELSE << PlainMessage("FlushScreen", "screen", s0 + 1) >>
     IN /\ hard_chan' = Sent(hard_chan, out, HardChanCap)
        /\ screen_task' = [screen_task EXCEPT !.out = Blocked(hard_chan, out, HardChanCap)]
        /\ hist' = [hist EXCEPT !.screen_ticks = hist.screen_ticks + 1,
                                !.sent["screen"] = s0 + Len(out)]
  /\ UNCHANGED << clock_chan, playback_chan, clock, timer, input, orchestrator, debug >>
  /\ UNCH_hw

ScreenSendBlocked ==
  /\ OthersPolled
  /\ screen_task.out # << >>
  /\ ~HardFull
  /\ hard_chan' = Sent(hard_chan, screen_task.out, HardChanCap)
  /\ screen_task' = [screen_task EXCEPT !.out = Blocked(hard_chan, screen_task.out, HardChanCap)]
  /\ UNCHANGED << clock_chan, playback_chan, clock, timer, input, orchestrator, debug, hist >>
  /\ UNCH_hw

(* ---------------- InputScheduler::run ---------------- *)
ControlMessageOf(command) ==
  CASE command = "Quit" -> "Shutdown"
    [] command = "DebugPlayPause" -> "TogglePausePlay"
    [] command = "DebugStep" -> "Step"

InputIdle == input.out = << >> /\ input.out_cmd = << >>

(* faulty: the match on a command without the guard on the press edge *)
InputHandles_on_any_edge(ev) ==
  IF ev.type = "Chip8KeyEvent"
  THEN LET ks == IF ev.kind = "Press" THEN press(input.key_state, ev.key)
                 ELSE release(input.key_state, ev.key)
           s0 == hist.sent["input"]
           out == << HardwareMessage("HandleKeyEvent", ev.key, ev.kind, {}, "input", s0 + 1),
                     HardwareMessage("UpdateKeyState", 0, "-", ks, "input", s0 + 2) >>
       IN /\ hard_chan' = Sent(hard_chan, out, HardChanCap)
          /\ input' = [input EXCEPT !.key_state = ks,
                                    !.out = Blocked(hard_chan, out, HardChanCap)]
          /\ hist' = [hist EXCEPT !.inputs = hist.inputs + 1, !.sent["input"] = s0 + 2]
          /\ UNCHANGED clock_chan
  ELSE LET out == << ControlMessageOf(ev.command) >>
       IN /\ clock_chan' = Sent(clock_chan, out, ClockChanCap)
          /\ input' = [input EXCEPT !.out_cmd = Blocked(clock_chan, out, ClockChanCap)]
          /\ hist' = [hist EXCEPT !.inputs = hist.inputs + 1]
          /\ UNCHANGED hard_chan

(* the match on the input event ev *)
InputHandles(ev) ==
  IF ev.type = "Chip8KeyEvent"
  THEN LET ks == IF ev.kind = "Press" THEN press(input.key_state, ev.key)
                 ELSE release(input.key_state, ev.key)
           s0 == hist.sent["input"]
           out == << HardwareMessage("HandleKeyEvent", ev.key, ev.kind, {}, "input", s0 + 1),
                     HardwareMessage("UpdateKeyState", 0, "-", ks, "input", s0 + 2) >>
       IN /\ hard_chan' = Sent(hard_chan, out, HardChanCap)
          /\ input' = [input EXCEPT !.key_state = ks,
                                    !.out = Blocked(hard_chan, out, HardChanCap)]
          /\ hist' = [hist EXCEPT !.inputs = hist.inputs + 1, !.sent["input"] = s0 + 2]
          /\ UNCHANGED clock_chan
  ELSE IF ev.kind = "Press"
  THEN LET out == << ControlMessageOf(ev.command) >>
       IN /\ clock_chan' = Sent(clock_chan, out, ClockChanCap)
          /\ input' = [input EXCEPT !.out_cmd = Blocked(clock_chan, out, ClockChanCap)]
          /\ hist' = [hist EXCEPT !.inputs = hist.inputs + 1]
          /\ UNCHANGED hard_chan
  ELSE /\ hist' = [hist EXCEPT !.inputs = hist.inputs + 1]
       /\ UNCHANGED << hard_chan, clock_chan, input >>

(* one input_event = input.next_input_event().await and the match on it *)
InputEvent ==
  /\ OthersPolled
  /\ InputIdle
  /\ hist.inputs < hist.budget.inputs
  /\ \E ev \in InputEvents : InputHandles(ev)
  /\ UNCHANGED << playback_chan, clock, timer, screen_task, orchestrator, debug >>
  /\ UNCH_hw

InputSendBlocked ==
  /\ OthersPolled
  /\ input.out # << >>
  /\ ~HardFull
  /\ hard_chan' = Sent(hard_chan, input.out, HardChanCap)
  /\ input' = [input EXCEPT !.out = Blocked(hard_chan, input.out, HardChanCap)]
  /\ UNCHANGED << clock_chan, playback_chan, clock, timer, screen_task, orchestrator, debug, hist >>
  /\ UNCH_hw

InputSendCommandBlocked ==
  /\ OthersPolled
  /\ input.out_cmd # << >>
  /\ Len(clock_chan) < ClockChanCap
  /\ clock_chan' = clock_chan \o input.out_cmd
  /\ input' = [input EXCEPT !.out_cmd = << >>]
  /\ UNCHANGED << hard_chan, playback_chan, clock, timer, screen_task, orchestrator, debug, hist >>
  /\ UNCH_hw

(* ---------------- Chip8Orchaestrator::run: the select! over the five futures ------- *)
Next ==
  \/ HwExecuteInstruction
  \/ HwHandleKeyEvent
  \/ HwDecrementTimers
  \/ HwUpdateKeyState
  \/ HwFlushScreen
  \/ HwUpdateDebugInfo
  \/ ClockStart
  \/ ClockTogglePausePlay
  \/ ClockStep
  \/ ClockShutdown
  \/ ClockSendPlayback
  \/ ClockTick
  \/ ClockSingleStep
  \/ ClockSendBlocked
  \/ TimerTick
  \/ TimerSendBlocked
  \/ ScreenTick
  \/ ScreenSendBlocked
  \/ InputEvent
  \/ InputSendBlocked
  \/ InputSendCommandBlocked

Spec == Init /\ [][Next]_vars

(* Scheduling: the runtime keeps polling the select! while one of its futures *)
(* was woken, and the three clocks tick for ever, so a run does not stop while *)
(* a task has a step to take, and a message waiting on the hardware bus is     *)
(* received.  Only the user need not send another input event.                 *)
HardwareReceives ==
  /\ OthersPolled
  /\ hard_chan # << >>
  /\ hard_chan' = Tail(hard_chan)

TaskStep ==
  \/ ClockRun
  \/ TimerTick
  \/ TimerSendBlocked
  \/ ScreenTick
  \/ ScreenSendBlocked
  \/ InputSendBlocked
  \/ InputSendCommandBlocked

(* The variant only decides the edge that releases the key wait and the way    *)
(* the register block instructions move I; the runs checked for progress take  *)
(* one variant.                                                                *)
InitOneVariant == Init /\ hardware.config.version = "Chip48"

FairSpec ==
  /\ InitOneVariant
  /\ [][Next]_vars
  /\ WF_hard_chan(HardwareReceives)
  /\ WF_vars(TaskStep)

(* ---------------- a key wait followed by a key skip ---------------- *)
(* The scheduler on CHIP-48 and SUPER-CHIP with the program                    *)
(* F10A E19E 1204 1206:                                                        *)
(* GET_KEY V1; SKIP_KEY_PRESSED V1; 0x204: JUMP 0x204; 0x206: JUMP 0x206       *)
InitKeySkip ==
  /\ debug \in BOOLEAN
  /\ \E version \in {"Chip48", "SuperChip"} :
       hardware = load_rom(Hardware_new([version |-> version, overflow_checks |-> TRUE]),
                           << 241, 10, 225, 158, 18, 4, 18, 6 >>).h
  /\ terminal = << >>
  /\ hard_chan = << >>
  /\ clock_chan = << >>
  /\ playback_chan = << >>
  /\ clock = [pc |-> "start", is_running |-> initial_is_running(debug),
              single_step_pending |-> FALSE,
              out_playback |-> << >>]
  /\ timer = [out |-> << >>]
  /\ screen_task = [out |-> << >>]
  /\ input = [key_state |-> Chip8KeyState_default, out |-> << >>, out_cmd |-> << >>]
  /\ orchestrator = "select"
  /\ \E budget \in Budgets : hist = InitHist(budget)

SpecKeySkip == InitKeySkip /\ [][Next]_vars


(* ======================= one instruction at a time ======================= *)
(* The hardware consumer alone, handling ExecuteInstruction messages on a       *)
(* machine some program has brought about: the opcode at PC, the registers, I,  *)
(* the stack, the keypad, the framebuffer and the sprite bytes are drawn from   *)
(* the sets below.  Here hist keeps the hardware before the last execute, the   *)
(* instruction that was executed and the number of executes, and the same of    *)
(* the execute before it.                                                       *)
MaxExecuted == 2

RegSample == {0, 1, 15}
ByteSample == {0, 1, 127, 128, 129, 255}
FewBytes == {0, 1, 255}

Opcode(n1, n2, n3, n4) == n1 * 4096 + n2 * 256 + n3 * 16 + n4

(* 00E0 00EE 0000 0123 1234 2345 A123 AFFF B004 *)
OtherOpcodes ==
  {224, 238, 0, 291, 4660, 9029, 41251, 45055, 45060}
  \cup { Opcode(n1, rx, 0, 1) : n1 \in {3, 4, 6, 7, 12}, rx \in RegSample }
  \cup { Opcode(7, rx, 15, 15) : rx \in RegSample }
  \cup { Opcode(n1, rx, ry, 0) : n1 \in {5, 9}, rx \in RegSample, ry \in RegSample }
  \cup { Opcode(13, rx, 1, 2) : rx \in RegSample }
  \cup { Opcode(14, rx, 9, 14) : rx \in RegSample }
  \cup { Opcode(14, rx, 10, 1) : rx \in RegSample }
  \cup { Opcode(15, rx, lo \div 16, lo % 16) :
            rx \in RegSample, lo \in {7, 10, 21, 24, 30, 41, 51, 85, 101} }

(* fifteen rows of sprite data *)
SpriteBytes == << 255, 129, 60, 1, 128, 0, 24, 255, 170, 85, 15, 240, 102, 153, 255 >>

(* frames left by earlier draws *)
PixelSample ==
  { {},
    { get_idx(px, py) : px \in 56..63, py \in 28..31 } \cup { get_idx(0, 0), get_idx(7, 0), get_idx(1, 1) } }

(* the part of bytes that lies inside the memory when stored from start on *)
InsideMemory(start, bytes) ==
  IF start >= MEMORY_SIZE THEN << >>
  ELSE SubSeq(bytes, 1, Min(Len(bytes), MEMORY_SIZE - start))

(* a machine with the program rom at the entry point, as load_rom and the       *)
(* instructions run before leave it                                             *)
ProgramMachine(version, overflow_checks, rom, v0, v1, vf, index, stack, pixels, sprite) ==
  LET h0 == load_rom(Hardware_new([version |-> version, overflow_checks |-> overflow_checks]),
                     rom).h
  IN [h0 EXCEPT !.cpu.gen_r = [r \in 0..(REGISTER_COUNT - 1) |->
                                 CASE r = 0 -> v0 [] r = 1 -> v1 [] r = 15 -> vf [] OTHER -> 0],
                !.cpu.index_r = index,
                !.cpu.stack = stack,
                !.cpu.delay_timer = 9,
                !.key_state = {1},
                !.screen.pixels = pixels,
                !.cpu.memory = CopySlice(h0.cpu.memory, index, InsideMemory(index, sprite))]

(* the two bytes of an opcode, big-endian *)
Bytes(raw) == << raw \div 256, raw % 256 >>

(* a machine with the one opcode raw at the entry point *)
Machine(version, overflow_checks, raw, v0, v1, vf, index, stack, pixels, sprite) ==
  ProgramMachine(version, overflow_checks, Bytes(raw), v0, v1, vf, index, stack, pixels, sprite)

RegOpMachine ==
  \E version \in Versions,
     raw \in { Opcode(8, rx, ry, op4) : rx \in RegSample, ry \in RegSample,
                                        op4 \in {0, 1, 2, 3, 4, 5, 6, 7, 14} },
     v0 \in ByteSample, v1 \in ByteSample, vf \in {0, 1, 129} :
       hardware = Machine(version, TRUE, raw, v0, v1, vf, 768, << >>, {}, << >>)

(* 8014 8015 8016 8017 801E on a wider range of operands *)
ArithmeticMachine ==
  \E version \in Versions, raw \in { Opcode(8, 0, 1, op4) : op4 \in {4, 5, 6, 7, 14} },
     operands \in LET wide == (0..3) \cup (62..65) \cup (126..129) \cup (190..193)
                                \cup (252..255) \cup {16, 85, 100, 170}
                  IN wide \X wide :
       LET v0 == operands[1]
           v1 == operands[2]
       IN hardware = Machine(version, TRUE, raw, v0, v1, 1, 768, << >>, {}, << >>)

(* BNNN *)
JumpOffsetMachine ==
  \E version \in Versions, raw \in { 45056 + a : a \in {0, 255, 291, 511, 3840, 3841, 4095} },
     v0 \in FewBytes, v1 \in {0, 16}, vf \in {0, 1, 129} :
       hardware = Machine(version, TRUE, raw, v0, v1, vf, 768, << >>, {}, << >>)

DrawMachine ==
  \E version \in Versions,
     raw \in { Opcode(13, rx, ry, rows) : rx \in {0, 15}, ry \in {0, 1, 15},
                                          rows \in {0, 1, 2, 15} },
     v0 \in {0, 62, 63, 64, 255}, v1 \in {0, 30, 31, 32, 255}, vf \in {0, 62},
     index \in {768, 4081, 4095}, pixels \in PixelSample :
       hardware = ProgramMachine(version, TRUE, Bytes(raw) \o Bytes(raw), v0, v1, vf, index,
                                 << >>, pixels, SpriteBytes)

(* I, the stack and the build's overflow checks, for the instructions that use them *)
OtherMachine ==
  \E version \in Versions, raw \in OtherOpcodes,
     ctx \in { [index |-> 768, stack |-> << >>, overflow_checks |-> TRUE],
               [index |-> 4094, stack |-> << 768 >>, overflow_checks |-> TRUE],
               [index |-> 65535, stack |-> << 768 >>, overflow_checks |-> TRUE],
               [index |-> 65535, stack |-> << >>, overflow_checks |-> FALSE] },
     v0 \in FewBytes, v1 \in FewBytes, vf \in FewBytes :
       hardware = Machine(version, ctx.overflow_checks, raw, v0, v1, vf, ctx.index, ctx.stack,
                          {}, << 7, 8, 9 >>)

(* the hardware consumer on its own: nothing executed yet, the tasks at rest *)
ExecuteOnly ==
  /\ hist = [pre |-> hardware, inst |-> NoInst, executed |-> 0,
             before |-> hardware, before_inst |-> NoInst]
  /\ terminal = << >>
  /\ hard_chan = << >>
  /\ clock_chan = << >>
  /\ playback_chan = << >>
  /\ clock = [pc |-> "start", is_running |-> TRUE, single_step_pending |-> FALSE,
              out_playback |-> << >>]
  /\ timer = [out |-> << >>]
  /\ screen_task = [out |-> << >>]
  /\ input = [key_state |-> {1}, out |-> << >>, out_cmd |-> << >>]
  /\ orchestrator = "select"
  /\ debug = FALSE

InitExec ==
  /\ RegOpMachine \/ ArithmeticMachine \/ JumpOffsetMachine \/ DrawMachine \/ OtherMachine
  /\ ExecuteOnly

(* the instruction the ExecuteInstruction arm runs on h, NoInst when it runs none *)
Fetched(h) ==
  IF is_waiting_for_key(h) \/ FetchPanics(h) THEN NoInst
  ELSE decode(fetch_current_instruction(h))

(* the hardware consumer handles one ExecuteInstruction *)
ExecuteFetched ==
  /\ Alive(hardware)
  /\ hist.executed < MaxExecuted
  /\ \E random \in RandomChoices(hardware) :
       hardware' = run_ExecuteInstruction(hardware, random)
  /\ hist' = [pre |-> hardware, inst |-> Fetched(hardware), executed |-> hist.executed + 1,
              before |-> hist.pre, before_inst |-> hist.inst]
  /\ UNCHANGED << terminal, playback_chan, hard_chan >>
  /\ UNCH_tasks

SpecExec == InitExec /\ [][ExecuteFetched]_vars

(* ---- the register block instructions, BCD, the stack and undefined opcodes ---- *)
(* FX55 FX65 *)
BlockMachine ==
  \E version \in Versions,
     raw \in { Opcode(15, rx, 5, 5) : rx \in {0, 1, 2, 15} }
                \cup { Opcode(15, rx, 6, 5) : rx \in {0, 1, 2, 15} },
     v0 \in {0, 7, 255}, v1 \in {0, 200}, vf \in {0, 3}, index \in {768, 4080, 4081, 4095} :
       hardware = Machine(version, TRUE, raw, v0, v1, vf, index, << 768 >>, {}, SpriteBytes)

(* F033 FF33 on every value of the register *)
BcdMachine ==
  \E version \in Versions, raw \in {61491, 65331}, value \in 0..(U8 - 1),
     index \in {768, 4093, 4094} :
       hardware = Machine(version, TRUE, raw, value, 0, value, index, << >>, {}, << 7, 8, 9 >>)

(* programs that take I to the end of the memory and use it:                    *)
(* AFFF F033, AFFF F155, AFFF F165, AFFF D012, AFFD F033 from I = 0;            *)
(* F01E F033 and F055 F065 from I = 0xFFF                                       *)
IndexProgramMachine ==
  \E version \in Versions,
     program \in { [rom |-> Bytes(45055) \o Bytes(second), index |-> 0] :
                     second \in {61491, 61781, 61797, 53266} }
                 \cup { [rom |-> Bytes(45053) \o Bytes(61491), index |-> 0],
                        [rom |-> Bytes(61470) \o Bytes(61491), index |-> 4095],
                        [rom |-> Bytes(61525) \o Bytes(61541), index |-> 4095] },
     v0 \in {0, 1, 255}, overflow_checks \in BOOLEAN :
       hardware = ProgramMachine(version, overflow_checks, program.rom, v0, 0, 0,
                                 program.index, << >>, {}, << >>)

(* 2200, the subroutine that calls itself; 00EE; 2204 0000 00EE, a call and its *)
(* return; 2204 0000 2208 0000 00EE, a call in a call; on the stack that depth  *)
(* calls made before have left                                                  *)
CallMachine ==
  \E version \in Versions,
     rom \in { Bytes(8704), Bytes(238), Bytes(8708) \o Bytes(0) \o Bytes(238),
               Bytes(8708) \o Bytes(0) \o Bytes(8712) \o Bytes(0) \o Bytes(238) },
     depth \in {0, 1, 14, 15}, v0 \in FewBytes :
       hardware = ProgramMachine(version, TRUE, rom, v0, 0, 0, 768,
                                 [i \in 1..depth |-> 768 + 2 * i], {}, << >>)

(* 5001 500F 8008 800F 9001 E000 E19F F000 F0FF F166 FFFF *)
UndefinedMachine ==
  \E version \in Versions,
     raw \in {20481, 20495, 32776, 32783, 36865, 57344, 57759, 61440, 61695, 61798, 65535},
     v0 \in FewBytes, vf \in {0, 1},
     pixels \in PixelSample :
       hardware = Machine(version, TRUE, raw, v0, 0, vf, 768, << 768 >>, pixels, << 7, 8, 9 >>)

(* 3XNN 4XNN 5XY0 9XY0 EX9E EXA1 on registers below and above 0xF and on keypads *)
(* with the keys 0, 1 and F up or down                                          *)
SkipMachine ==
  \E version \in Versions,
     raw \in { Opcode(n1, rx, nib, nib) : n1 \in {3, 4}, rx \in {0, 1}, nib \in {0, 1} }
            \cup { Opcode(n1, rx, ry, 0) : n1 \in {5, 9}, rx \in {0, 1}, ry \in {0, 1} }
            \cup { Opcode(14, rx, 9, 14) : rx \in {0, 1, 15} }
            \cup { Opcode(14, rx, 10, 1) : rx \in {0, 1, 15} },
     v0 \in {0, 1, 17, 241, 255}, v1 \in {1, 17, 31}, vf \in {0, 1},
     key_state \in { {}, {0}, {1}, {15}, {1, 15} }, pixels \in PixelSample :
       hardware = set_key_state(
                    Machine(version, TRUE, raw, v0, v1, vf, 768, << 768 >>, pixels, << 7, 8, 9 >>),
                    key_state)

(* programs that take PC to the end of the memory: 1FFF, a jump to the last     *)
(* byte; and ROMs of the full 3584 bytes that jump (1FFE) to their last         *)
(* instruction at 0xFFE: 6001, 3000 (a skip taken when V0 = 0) or 00E0          *)
EndOfMemoryMachine ==
  \E version \in Versions,
     rom \in { Bytes(8191) }
            \cup { [i \in 1..(MEMORY_SIZE - ENTRY_POINT) |->
                      CASE i = 1 -> 31
                        [] i = 2 -> 254
                        [] i = MEMORY_SIZE - ENTRY_POINT - 1 -> last \div 256
                        [] i = MEMORY_SIZE - ENTRY_POINT -> last % 256
                        [] OTHER -> 0] : last \in {24577, 12288, 224} },
     v0 \in {0, 1}, overflow_checks \in BOOLEAN :
       hardware = ProgramMachine(version, overflow_checks, rom, v0, 0, 0, 768, << >>, {}, << >>)

InitMem ==
  /\ BlockMachine \/ BcdMachine \/ IndexProgramMachine \/ CallMachine \/ UndefinedMachine
     \/ SkipMachine \/ EndOfMemoryMachine
  /\ ExecuteOnly

SpecMem == InitMem /\ [][ExecuteFetched]_vars


(* ======================= the timers ======================= *)
(* The hardware consumer handling ExecuteInstruction and DecrementTimers         *)
(* messages in any order, on a program that writes and reads the timers.  Here  *)
(* hist keeps, besides the last execute, the value last written to the delay    *)
(* timer and the number of DecrementTimers handled since.                       *)
MaxTimedExecutes == 4
MaxDecrements == 4

(* F015 F118 F207 1204:                                                         *)
(* delay <- V0; sound <- V1; V2 <- delay; JUMP 0x204                             *)
InitTimers ==
  /\ \E version \in Versions, v0 \in {0, 1, 2, 3, 255}, v1 \in {0, 1, 2} :
        hardware = ProgramMachine(version, TRUE,
                                 Bytes(61461) \o Bytes(61720) \o Bytes(61959) \o Bytes(4612),
                                 v0, v1, 0, 768, << >>, {}, << >>)
  /\ hist = [pre |-> hardware, inst |-> NoInst, executed |-> 0, decrements |-> 0,
             written |-> get_delay_timer(hardware), since |-> 0, last |-> "none"]
  /\ terminal = << >>
  /\ hard_chan = << >>
  /\ clock_chan = << >>
  /\ playback_chan = << >>
  /\ clock = [pc |-> "start", is_running |-> TRUE, single_step_pending |-> FALSE,
              out_playback |-> << >>]
  /\ timer = [out |-> << >>]
  /\ screen_task = [out |-> << >>]
  /\ input = [key_state |-> {1}, out |-> << >>, out_cmd |-> << >>]
  /\ orchestrator = "select"
  /\ debug = FALSE

(* the hardware consumer handles one ExecuteInstruction *)
ExecuteTimed ==
  /\ Alive(hardware)
  /\ hist.executed < MaxTimedExecutes
  /\ \E random \in RandomChoices(hardware) :
       hardware' = run_ExecuteInstruction(hardware, random)
  /\ LET inst == Fetched(hardware)
         sets_delay == inst.op = "SetDelayTimer"
     IN hist' = [hist EXCEPT !.pre = hardware, !.inst = inst,
                             !.executed = hist.executed + 1,
                             !.written = IF sets_delay THEN register_val(hardware, inst.x)
                                         ELSE hist.written,
                             !.since = IF sets_delay THEN 0 ELSE hist.since,
                             !.last = "execute"]
  /\ UNCHANGED << terminal, playback_chan, hard_chan >>
  /\ UNCH_tasks

(* the hardware consumer handles one DecrementTimers *)
DecrementTimed ==
  /\ Alive(hardware)
  /\ hist.decrements < MaxDecrements
  /\ hardware' = run_DecrementTimers(hardware)
  /\ hist' = [hist EXCEPT !.pre = hardware, !.inst = NoInst,
                          !.decrements = hist.decrements + 1,
                          !.since = hist.since + 1,
                          !.last = "decrement"]
  /\ UNCHANGED << terminal, playback_chan, hard_chan >>
  /\ UNCH_tasks

SpecTimers == InitTimers /\ [][ExecuteTimed \/ DecrementTimed]_vars


(* ======================= loading a ROM ======================= *)
(* load_rom on a fresh machine, for ROMs up to and beyond the room above the    *)
(* entry point; here hist keeps the ROM and the result of load_rom.  The ROMs   *)
(* are the bytes first, first + step, first + 2 * step, ...                     *)
InitLoad ==
  /\ \E version \in Versions :
        hardware = Hardware_new([version |-> version, overflow_checks |-> TRUE])
  /\ \E len \in {0, 1, 2, 80, 3500, 3583, 3584, 3585, 3586, 4096},
        fill \in { << 0, 0 >>, << 255, 0 >>, << 1, 1 >>, << 7, 3 >> } :
        hist = [rom |-> [i \in 1..len |-> (fill[1] + (i - 1) * fill[2]) % U8], loaded |-> FALSE, ok |-> FALSE]
  /\ terminal = << >>
  /\ hard_chan = << >>
  /\ clock_chan = << >>
  /\ playback_chan = << >>
  /\ clock = [pc |-> "start", is_running |-> TRUE, single_step_pending |-> FALSE,
              out_playback |-> << >>]
  /\ timer = [out |-> << >>]
  /\ screen_task = [out |-> << >>]
  /\ input = [key_state |-> Chip8KeyState_default, out |-> << >>, out_cmd |-> << >>]
  /\ orchestrator = "select"
  /\ debug = FALSE

LoadRom ==
  /\ ~hist.loaded
  /\ hardware' = load_rom(hardware, hist.rom).h
  /\ hist' = [hist EXCEPT !.loaded = TRUE, !.ok = load_rom(hardware, hist.rom).ok]
  /\ UNCHANGED << terminal, hard_chan, playback_chan >>
  /\ UNCH_tasks

SpecLoad == InitLoad /\ [][LoadRom]_vars


(* ======================= the keyboard layouts ======================= *)
(* The key mapping a KeyEventHandler is built with, asked for one physical key; *)
(* here hist keeps the layout, the key and the answer (16 for no hex key).      *)
(* faulty: the last key of the Natural layout set to F *)
setup_key_mapping_natural_v_f(layout) ==
  CASE layout = "Qwerty" ->
         ("1" :> 1) @@ ("2" :> 2) @@ ("3" :> 3) @@ ("4" :> 12)
         @@ ("q" :> 4) @@ ("w" :> 5) @@ ("e" :> 6) @@ ("r" :> 13)
         @@ ("a" :> 7) @@ ("s" :> 8) @@ ("d" :> 9) @@ ("f" :> 14)
         @@ ("z" :> 10) @@ ("x" :> 0) @@ ("c" :> 11) @@ ("v" :> 15)
    [] layout = "Natural" ->
         ("1" :> 1) @@ ("2" :> 2) @@ ("3" :> 3) @@ ("4" :> 4)
         @@ ("q" :> 5) @@ ("w" :> 6) @@ ("e" :> 7) @@ ("r" :> 8)
         @@ ("a" :> 9) @@ ("s" :> 10) @@ ("d" :> 11) @@ ("f" :> 12)
         @@ ("z" :> 13) @@ ("x" :> 14) @@ ("c" :> 15) @@ ("v" :> 15)
    [] layout = "Sequential" ->
         ("1" :> 1) @@ ("2" :> 2) @@ ("3" :> 3) @@ ("4" :> 4) @@ ("5" :> 5)
         @@ ("6" :> 6) @@ ("7" :> 7) @@ ("8" :> 8) @@ ("9" :> 9) @@ ("0" :> 0)
         @@ ("q" :> 10) @@ ("w" :> 11) @@ ("e" :> 12) @@ ("r" :> 13)
         @@ ("t" :> 14) @@ ("y" :> 15)

(* key_mapping after setup_key_mapping, by the KeyCode of the physical key:     *)
(* Char(c) as the string of c, Esc, Enter and Char(' ') by name                 *)
setup_key_mapping(layout) ==
  CASE layout = "Qwerty" ->
         ("1" :> 1) @@ ("2" :> 2) @@ ("3" :> 3) @@ ("4" :> 12)
         @@ ("q" :> 4) @@ ("w" :> 5) @@ ("e" :> 6) @@ ("r" :> 13)
         @@ ("a" :> 7) @@ ("s" :> 8) @@ ("d" :> 9) @@ ("f" :> 14)
         @@ ("z" :> 10) @@ ("x" :> 0) @@ ("c" :> 11) @@ ("v" :> 15)
    [] layout = "Natural" ->
         ("1" :> 1) @@ ("2" :> 2) @@ ("3" :> 3) @@ ("4" :> 4)
         @@ ("q" :> 5) @@ ("w" :> 6) @@ ("e" :> 7) @@ ("r" :> 8)
         @@ ("a" :> 9) @@ ("s" :> 10) @@ ("d" :> 11) @@ ("f" :> 12)
         @@ ("z" :> 13) @@ ("x" :> 14) @@ ("c" :> 15) @@ ("v" :> 0)
    [] layout = "Sequential" ->
         ("1" :> 1) @@ ("2" :> 2) @@ ("3" :> 3) @@ ("4" :> 4) @@ ("5" :> 5)
         @@ ("6" :> 6) @@ ("7" :> 7) @@ ("8" :> 8) @@ ("9" :> 9) @@ ("0" :> 0)
         @@ ("q" :> 10) @@ ("w" :> 11) @@ ("e" :> 12) @@ ("r" :> 13)
         @@ ("t" :> 14) @@ ("y" :> 15)

InitLayout ==
  /\ \E layout \in {"Qwerty", "Natural", "Sequential"},
        key \in {"0", "1", "2", "3", "4", "5", "6", "7", "8", "9",
                 "q", "w", "e", "r", "t", "y", "u", "a", "s", "d", "f", "g",
                 "z", "x", "c", "v", "b", "Q", "A", "Esc", "Space", "Enter", "Tab"} :
        hist = [layout |-> layout, key |-> key, looked_up |-> FALSE, mapped |-> 16]
  /\ hardware = Hardware_new([version |-> "Cosmac", overflow_checks |-> TRUE])
  /\ terminal = << >>
  /\ hard_chan = << >>
  /\ clock_chan = << >>
  /\ playback_chan = << >>
  /\ clock = [pc |-> "start", is_running |-> TRUE, single_step_pending |-> FALSE,
              out_playback |-> << >>]
  /\ timer = [out |-> << >>]
  /\ screen_task = [out |-> << >>]
  /\ input = [key_state |-> Chip8KeyState_default, out |-> << >>, out_cmd |-> << >>]
  /\ orchestrator = "select"
  /\ debug = FALSE

(* self.key_mapping.get(&key_event.code) *)
MapKey ==
  /\ ~hist.looked_up
  /\ hist' = [hist EXCEPT !.looked_up = TRUE,
                          !.mapped = IF hist.key \in DOMAIN setup_key_mapping(hist.layout)
                                     THEN setup_key_mapping(hist.layout)[hist.key]
                                     ELSE 16]
  /\ UNCHANGED << hardware, terminal, hard_chan, playback_chan >>
  /\ UNCH_tasks

SpecLayout == InitLayout /\ [][MapKey]_vars


(* ======================= the decoder alone ======================= *)
(* Decoder::decode applied to each of the 2^16 opcodes; here hist keeps the     *)
(* opcode and what it decoded to.                                               *)
InitDecode ==
  /\ \E raw \in 0..(U16 - 1) : hist = [raw |-> raw, inst |-> NoInst, decoded |-> FALSE]
  /\ hardware = Hardware_new([version |-> "Cosmac", overflow_checks |-> TRUE])
  /\ terminal = << >>
  /\ hard_chan = << >>
  /\ clock_chan = << >>
  /\ playback_chan = << >>
  /\ clock = [pc |-> "start", is_running |-> TRUE, single_step_pending |-> FALSE,
              out_playback |-> << >>]
  /\ timer = [out |-> << >>]
  /\ screen_task = [out |-> << >>]
  /\ input = [key_state |-> Chip8KeyState_default, out |-> << >>, out_cmd |-> << >>]
  /\ orchestrator = "select"
  /\ debug = FALSE

DecodeOpcode ==
  /\ ~hist.decoded
  /\ hist' = [hist EXCEPT !.inst = decode(hist.raw), !.decoded = TRUE]
  /\ UNCHANGED << hardware, terminal, hard_chan, playback_chan >>
  /\ UNCH_tasks

SpecDecode == InitDecode /\ [][DecodeOpcode]_vars


(* ======================= properties ======================= *)
ExecHandled == hist'.handled["clock"] # hist.handled["clock"]
KeyEventHandled ==
  /\ hist'.handled["input"] # hist.handled["input"]
  /\ Head(hard_chan).type = "HandleKeyEvent"

(* C1: executing GET_KEY Vx arms the latch on Vx and leaves PC on the opcode;   *)
(* while the latch is armed every ExecuteInstruction the hardware handles       *)
(* leaves the CPU (PC, I, registers, memory, stack, timers) and the framebuffer *)
(* unchanged.                                                                   *)
C1_GetKeyArmsLatchAndExecIsSkipped ==
  [][ ExecHandled =>
        LET inst == decode(fetch_current_instruction(hardware))
        IN /\ is_waiting_for_key(hardware) =>
                /\ hardware'.cpu = hardware.cpu
                /\ hardware'.screen = hardware.screen
           /\ (~is_waiting_for_key(hardware) /\ inst.op = "GetKey") =>
                /\ hardware'.cpu.waiting_for_key = << inst.x >>
                /\ hardware'.cpu.pc_r = hardware.cpu.pc_r
                /\ hardware'.cpu.gen_r = hardware.cpu.gen_r ]_vars

(* the latch is armed on V1 by the fourth instruction and a fifth                *)
(* ExecuteInstruction has been handled since                                    *)
C1_Witness ==
  /\ hardware.cpu.waiting_for_key = << 1 >>
  /\ hardware.cpu.pc_r = ENTRY_POINT + 6
  /\ hist.handled["clock"] >= 5

(* C2: a HandleKeyEvent handled with the latch armed on Vx and the edge the     *)
(* variant requires (release for COSMAC, press otherwise) puts the key in Vx,   *)
(* clears the latch and adds 2 to PC; with the other edge, or with no latch     *)
(* armed, it changes no CPU state.                                              *)
C2_HandleKeyEventMatchesEdge ==
  [][ KeyEventHandled =>
        LET m == Head(hard_chan)
            required == IF hardware.config.version = "Cosmac" THEN "Release" ELSE "Press"
        IN IF hardware.cpu.waiting_for_key # << >> /\ m.kind = required
           THEN LET reg == hardware.cpu.waiting_for_key[1]
                IN hardware'.cpu =
                     [hardware.cpu EXCEPT !.gen_r[reg] = m.key,
                                          !.waiting_for_key = << >>,
                                          !.pc_r = hardware.cpu.pc_r + 2]
           ELSE hardware'.cpu = hardware.cpu ]_vars

(* the key event released the latch: V1 holds the key and PC is past GET_KEY *)
C2_Witness ==
  /\ hardware.cpu.waiting_for_key = << >>
  /\ hardware.cpu.gen_r[1] = 5
  /\ hardware.cpu.pc_r = ENTRY_POINT + 8
  /\ hist.handled["input"] >= 1

(* C3: a CPU tick sends ExecuteInstruction only while is_running; while paused  *)
(* with no Step pending the clock sends no ExecuteInstruction.                  *)
C3_ExecOnlyWhenRunningOrStepPending ==
  [][ /\ (hist'.cpu_ticks # hist.cpu_ticks) => clock.is_running
      /\ (~clock.is_running /\ ~clock.single_step_pending) =>
            hist'.sent["clock"] = hist.sent["clock"] ]_vars

(* paused by a TogglePausePlay after running, with CPU ticks still to come *)
C3_Witness ==
  /\ ~clock.is_running
  /\ ~clock.single_step_pending
  /\ clock.pc = "select"
  /\ hist.toggles > 0
  /\ hist.sent["clock"] > 0
  /\ hist.cpu_ticks < hist.budget.cpu
  /\ hist.handled["timer"] > 0

(* C4: with the clock paused throughout (debug start, no TogglePausePlay), once *)
(* the clock is back at its select! with no Step pending it has sent exactly    *)
(* one ExecuteInstruction for every Step it has handled.                        *)
C4_EveryStepSendsOneExec ==
  (debug /\ hist.toggles = 0 /\ clock.pc = "select" /\ ~clock.single_step_pending)
    => hist.sent["clock"] = hist.steps

(* C5: in a debug run, once the ExecuteInstruction of the last handled Step    *)
(* has been sent and no control command has followed, the clock is not running *)
(* (no tick-driven ExecuteInstruction may follow) and, when every mode the     *)
(* clock sent has been taken by the hardware, the mode the hardware holds is   *)
(* Paused.                                                                     *)
C5_StepLandsInPaused ==
  (debug /\ hist.last_ctl = "Step" /\ hist.stepped /\ clock.pc = "select") =>
     /\ ~clock.is_running
     /\ playback_chan = << >> => hardware.playback_state = "Paused"

(* C6: in a debug run, a TogglePausePlay handled directly after a Step leaves  *)
(* the clock not running and, when every mode the clock sent has been taken by *)
(* the hardware, the mode the hardware holds is Paused.                        *)
C6_ToggleAfterStepPauses ==
  (debug /\ hist.last_ctl = "TogglePausePlay" /\ hist.prev_ctl = "Step"
         /\ clock.pc = "select") =>
     /\ ~clock.is_running
     /\ playback_chan = << >> => hardware.playback_state = "Paused"

(* C7: until the first control command is handled, a debug run is paused and    *)
(* sends no ExecuteInstruction, and a run without debug is running, with the    *)
(* tick branch of the clock's select! enabled.                                  *)
C7_StartsPausedIffDebug ==
  hist.last_ctl = "none" =>
     /\ debug => (~clock.is_running /\ hist.sent["clock"] = 0 /\ hist.cpu_ticks = 0)
     /\ ~debug => clock.is_running
     /\ (~debug /\ Pending /\ clock.pc = "select" /\ hist.cpu_ticks < hist.budget.cpu)
           => ENABLED ClockTick

(* a debug run in which the screen clock has ticked and its messages have been  *)
(* handled, with no control command and no ExecuteInstruction yet               *)
C7_Witness ==
  /\ debug
  /\ hist.last_ctl = "none"
  /\ hist.handled["screen"] >= 2
  /\ hist.sent["clock"] = 0
  /\ hardware.playback_state = "Paused"

ShutdownSent ==
  \/ \E i \in 1..Len(clock_chan) : clock_chan[i] = "Shutdown"
  \/ \E i \in 1..Len(input.out_cmd) : input.out_cmd[i] = "Shutdown"

(* C8: a Shutdown the input pump has sent (or is sending) leads to the clock    *)
(* task exiting; the exit of the clock task completes the select! of the        *)
(* orchestrator, and from then on no message is handled and nothing changes.    *)
C8_ShutdownIsTerminal ==
  /\ ShutdownSent ~> (clock.pc = "done")
  /\ [](clock.pc = "done" => orchestrator = "returned")
  /\ [][orchestrator = "returned" => UNCHANGED vars]_vars

(* the clock has exited with messages still waiting on the hardware bus *)
C8_Witness ==
  /\ clock.pc = "done"
  /\ orchestrator = "returned"
  /\ hard_chan # << >>
  /\ hist.handled["clock"] > 0

TimerHandled == hist'.handled["timer"] # hist.handled["timer"]
FlushHandled ==
  /\ hist'.handled["screen"] # hist.handled["screen"]
  /\ Head(hard_chan).type = "FlushScreen"
Decremented(t) == IF t > 0 THEN t - 1 ELSE 0

(* C9: whether or not the latch is armed or the clock is paused, a             *)
(* DecrementTimers or FlushScreen at the head of the hardware bus can be       *)
(* handled at once; handling DecrementTimers takes 1 off the delay and the     *)
(* sound timer unless already 0 and changes nothing else of the CPU, handling  *)
(* FlushScreen writes the current framebuffer; no other message changes the    *)
(* timers except the ExecuteInstruction of a running CPU.                      *)
C9_TimersAndFlushNeverHeld ==
  /\ [](( OthersPolled /\ hard_chan # << >>
          /\ Head(hard_chan).type = "DecrementTimers") => ENABLED HwDecrementTimers)
  /\ [](( OthersPolled /\ hard_chan # << >>
          /\ Head(hard_chan).type = "FlushScreen") => ENABLED HwFlushScreen)
  /\ [][ /\ TimerHandled =>
              hardware'.cpu =
                [hardware.cpu EXCEPT !.delay_timer = Decremented(hardware.cpu.delay_timer),
                                     !.sound_timer = Decremented(hardware.cpu.sound_timer)]
         /\ FlushHandled =>
              /\ terminal' = << [pixels |-> hardware.screen.pixels,
                                 debug_info |-> hardware.screen.debug_info] >>
              /\ hardware' = hardware
         /\ (~TimerHandled /\ (~ExecHandled \/ is_waiting_for_key(hardware))) =>
              /\ hardware'.cpu.delay_timer = hardware.cpu.delay_timer
              /\ hardware'.cpu.sound_timer = hardware.cpu.sound_timer ]_vars

(* a DecrementTimers was handled with the latch armed and the delay timer      *)
(* running, and a frame was written while the CPU waits                        *)
C9_Witness ==
  /\ hist.dec_latched
  /\ is_waiting_for_key(hardware)
  /\ hardware.cpu.delay_timer = 1
  /\ hardware.cpu.sound_timer = 1
  /\ terminal # << >>

(* C10: the hardware handles the messages of each producer in the order they   *)
(* were sent, none skipped and none twice; the input pump's messages for one   *)
(* key event (HandleKeyEvent, then UpdateKeyState) are both handled before any *)
(* message of a later event.                                                   *)
C10_PerProducerFifo ==
  /\ [](\A p \in Producers : hist.handled[p] <= hist.sent[p])
  /\ [][ /\ \A p \in Producers :
               hist'.handled[p] # hist.handled[p] => hist'.handled[p] = hist.handled[p] + 1
         /\ hist'.handled["input"] # hist.handled["input"] =>
               Head(hard_chan).type = IF hist'.handled["input"] % 2 = 1
                                      THEN "HandleKeyEvent" ELSE "UpdateKeyState" ]_vars

(* the messages of two key events have all been handled, with messages of the  *)
(* screen clock among them                                                     *)
C10_Witness ==
  /\ hist.handled["input"] >= 4
  /\ hist.handled["screen"] >= 1

(* a step in which the hardware consumer handles the message at the head of the *)
(* bus, and no task moves                                                       *)
OneMessageHandled ==
  /\ hard_chan # << >>
  /\ hard_chan' = Tail(hard_chan)
  /\ hist'.handled[Head(hard_chan).src] = Head(hard_chan).seq
  /\ UNCHANGED << clock, timer, screen_task, input, clock_chan >>

(* C11: the hardware (memory, V0..VF, PC, I, stack, timers, latch, framebuffer, *)
(* keypad) changes only in a step where the hardware consumer handles one bus   *)
(* message; a step of the clock, timer, screen or input task leaves it as it    *)
(* was.                                                                         *)
C11_HardwareIsOnlyWriter ==
  [][ /\ hardware' # hardware => OneMessageHandled
      /\ (TaskStep \/ InputEvent) => hardware' = hardware ]_vars

(* the hardware has handled messages of the clock, the timer and the pump: the  *)
(* program ran, the timers went down and the keypad took the pressed key        *)
C11_Witness ==
  /\ hist.handled["clock"] >= 3
  /\ hist.handled["timer"] >= 1
  /\ hist.handled["input"] >= 2
  /\ hardware.key_state = {5}
  /\ hardware.cpu.delay_timer = 1

(* C12: in a debug run, whenever FlushScreen is the message the hardware        *)
(* handles next, the DebugInfo held by the screen is the DebugInfo of the       *)
(* hardware as it is now: nothing changed the hardware since the                *)
(* UpdateDebugInfo of the same screen tick.                                     *)
C12_FlushShowsCurrentState ==
  (debug /\ Pending /\ hard_chan # << >> /\ Head(hard_chan).type = "FlushScreen")
    => hardware.screen.debug_info = << get_debug_info(hardware) >>

(* ---------------- properties of one execute ---------------- *)
(* the last step executed a decoded instruction *)
Executed == hist.executed > 0 /\ hist.inst.op # "None"
ExecutedOp(op) == hist.executed > 0 /\ hist.inst.op = op
ExecutedRegOp(regops) == ExecutedOp("RegOp") /\ hist.inst.regop \in regops
VBefore(reg) == hist.pre.cpu.gen_r[reg]
VAfter(reg) == hardware.cpu.gen_r[reg]
OnCosmac == hist.pre.config.version = "Cosmac"

(* the condition of a skip instruction and whether it held before the execute,  *)
(* the key skips asking for hex key Vx & 0x0F                                   *)
SkipOps == {"Skip", "SkipReg", "SkipKeyPress"}
ConditionHeld ==
  LET eq == CASE hist.inst.op = "Skip" -> VBefore(hist.inst.x) = hist.inst.nn
              [] hist.inst.op = "SkipReg" -> VBefore(hist.inst.x) = VBefore(hist.inst.y)
              [] hist.inst.op = "SkipKeyPress" ->
                   (VBefore(hist.inst.x) % 16) \in hist.pre.key_state
  IN IF hist.inst.skipif = "Eq" THEN eq ELSE ~eq

(* the same with the key skips asking for key Vx as it is, a key that is not    *)
(* one of the sixteen counting as not pressed                                   *)
ConditionHeldUnmasked ==
  LET eq == IF hist.inst.op = "SkipKeyPress"
            THEN VBefore(hist.inst.x) \in (hist.pre.key_state \cap (0..15))
            ELSE ConditionHeld = (hist.inst.skipif = "Eq")
  IN IF hist.inst.skipif = "Eq" THEN eq ELSE ~eq

OwnPcOps == {"Jump", "CallSubroutine", "JumpWithOffset", "GetKey"}

FlagRegOps == {"Add", "Sub", "SubInv", "ShiftRight", "ShiftLeft"}
HasFlagContract ==
  hist.inst.op = "Draw" \/ (hist.inst.op = "RegOp" /\ hist.inst.regop \in FlagRegOps)
DestinationIsVF ==
  /\ hist.inst.op \in {"RegOp", "SetRegImmediate", "AddRegImmediate", "Random",
                        "GetDelayTimer", "LoadAddr"}
  /\ hist.inst.x = 15

(* C14: an instruction with no flag contract (any but 8XY4, 8XY5, 8XY6, 8XY7,   *)
(* 8XYE and DRAW) whose destination is not VF leaves VF as it was; ADD Vx,NN    *)
(* puts (Vx + NN) mod 256 in Vx; ADD_I adds Vx to I.                            *)
C14_NoFlagContractLeavesVF ==
  /\ (Executed /\ ~HasFlagContract /\ ~DestinationIsVF) => VAfter(15) = VBefore(15)
  /\ ExecutedOp("AddRegImmediate") =>
        VAfter(hist.inst.x) = (VBefore(hist.inst.x) + hist.inst.nn) % 256
  /\ (ExecutedOp("AddIndex") /\ Alive(hardware)) =>
        hardware.cpu.index_r = (hist.pre.cpu.index_r + VBefore(hist.inst.x)) % 65536

(* ADD Vx,NN went past 255 with VF holding 255, and VF still holds it *)
C14_Witness ==
  /\ ExecutedOp("AddRegImmediate")
  /\ hist.inst.x # 15
  /\ VBefore(hist.inst.x) + hist.inst.nn >= 256
  /\ VBefore(15) = 255
  /\ VAfter(15) = 255

(* the value a shift works on *)
ShiftedValue == IF OnCosmac THEN VBefore(hist.inst.y) ELSE VBefore(hist.inst.x)

(* the flag of a flag-writing register operation, from the operands before it *)
FlagValue ==
  LET vx == VBefore(hist.inst.x)
      vy == VBefore(hist.inst.y)
  IN CASE hist.inst.regop = "Add" -> IF vx + vy >= 256 THEN 1 ELSE 0
       [] hist.inst.regop = "Sub" -> IF vx > vy THEN 1 ELSE 0
       [] hist.inst.regop = "SubInv" -> IF vy > vx THEN 1 ELSE 0
       [] hist.inst.regop = "ShiftRight" -> ShiftedValue % 2
       [] hist.inst.regop = "ShiftLeft" -> ShiftedValue \div 128

(* C15: after 8XY4, 8XY5, 8XY7, 8XY6 or 8XYE with X = F, VF holds the flag      *)
(* (carry, no-borrow, shifted-out bit), not the result, in every variant.       *)
C15_FlagWinsWhenDestinationIsVF ==
  (ExecutedRegOp(FlagRegOps) /\ hist.inst.x = 15) => VAfter(15) = FlagValue

(* C16: after 8XY4 with X # F, Vx = (x + y) mod 256 and VF = 1 if x + y >= 256, *)
(* else 0, x and y being Vx and Vy before.                                      *)
C16_AddSumAndCarry ==
  (ExecutedRegOp({"Add"}) /\ hist.inst.x # 15) =>
     LET sum == VBefore(hist.inst.x) + VBefore(hist.inst.y)
     IN /\ VAfter(hist.inst.x) = sum % 256
        /\ VAfter(15) = IF sum >= 256 THEN 1 ELSE 0

(* 128 + 128: the sum is exactly 256, Vx holds 0 and VF the carry *)
C16_Witness ==
  /\ ExecutedRegOp({"Add"})
  /\ hist.inst.x = 0
  /\ hist.inst.y = 1
  /\ VBefore(0) = 128
  /\ VBefore(1) = 128
  /\ VAfter(0) = 0
  /\ VAfter(15) = 1

(* C17: after 8XY5 with X # F, Vx = (x - y) mod 256 and VF = 1 if x > y, else   *)
(* 0; after 8XY7, Vx = (y - x) mod 256 and VF = 1 if y > x, else 0.             *)
C17_SubDifferenceAndNoBorrow ==
  /\ (ExecutedRegOp({"Sub"}) /\ hist.inst.x # 15) =>
        /\ VAfter(hist.inst.x) = (VBefore(hist.inst.x) - VBefore(hist.inst.y) + 256) % 256
        /\ VAfter(15) = IF VBefore(hist.inst.x) > VBefore(hist.inst.y) THEN 1 ELSE 0
  /\ (ExecutedRegOp({"SubInv"}) /\ hist.inst.x # 15) =>
        /\ VAfter(hist.inst.x) = (VBefore(hist.inst.y) - VBefore(hist.inst.x) + 256) % 256
        /\ VAfter(15) = IF VBefore(hist.inst.y) > VBefore(hist.inst.x) THEN 1 ELSE 0

(* 8015 with V0 = V1 = 129 and VF = 1 before: V0 holds 0 and VF was cleared *)
C17_Witness ==
  /\ ExecutedRegOp({"Sub"})
  /\ hist.inst.x = 0
  /\ hist.inst.y = 1
  /\ VBefore(0) = 129
  /\ VBefore(1) = 129
  /\ VBefore(15) = 1
  /\ VAfter(0) = 0
  /\ VAfter(15) = 0

ShiftResult ==
  IF hist.inst.regop = "ShiftRight" THEN ShiftedValue \div 2 ELSE (ShiftedValue * 2) % 256
ShiftFlag ==
  IF hist.inst.regop = "ShiftRight" THEN ShiftedValue % 2 ELSE ShiftedValue \div 128

(* C18, as stated: after 8XY6 or 8XYE with X # F, Vx holds the shifted value    *)
(* and VF the shifted-out bit of Vy (COSMAC) or of the old Vx (CHIP-48,         *)
(* SUPER-CHIP), and on COSMAC Vy is unchanged for Y # X.                        *)
C18_ShiftQuirk ==
  (ExecutedRegOp({"ShiftRight", "ShiftLeft"}) /\ hist.inst.x # 15) =>
     /\ VAfter(hist.inst.x) = ShiftResult
     /\ VAfter(15) = ShiftFlag
     /\ (OnCosmac /\ hist.inst.y # hist.inst.x) => VAfter(hist.inst.y) = VBefore(hist.inst.y)

(* C18, amended: as stated, with Vy unchanged on COSMAC for Y # X and Y # F     *)
(* (with Y = F, Vy is VF and takes the shifted-out bit).                        *)
C18_ShiftQuirkVyKeptUnlessVF ==
  (ExecutedRegOp({"ShiftRight", "ShiftLeft"}) /\ hist.inst.x # 15) =>
     /\ VAfter(hist.inst.x) = ShiftResult
     /\ VAfter(15) = ShiftFlag
     /\ (OnCosmac /\ hist.inst.y # hist.inst.x /\ hist.inst.y # 15) =>
            VAfter(hist.inst.y) = VBefore(hist.inst.y)

(* 8016 on COSMAC with V0 = 0 and V1 = 255: V0 = 127, V1 = 255, VF = 1 *)
C18_Witness ==
  /\ ExecutedRegOp({"ShiftRight"})
  /\ OnCosmac
  /\ hist.inst.x = 0
  /\ hist.inst.y = 1
  /\ VBefore(0) = 0
  /\ VBefore(1) = 255
  /\ VAfter(0) = 127
  /\ VAfter(1) = 255
  /\ VAfter(15) = 1

(* C19: after BNNN, PC = NNN + V0 on COSMAC and NNN + Vx, X the high nibble of  *)
(* NNN, on CHIP-48 and SUPER-CHIP, also when the sum is above 0xFFF.            *)
C19_JumpOffsetTarget ==
  ExecutedOp("JumpWithOffset") =>
     hardware.cpu.pc_r =
       hist.inst.nnn + (IF OnCosmac THEN VBefore(0) ELSE VBefore(hist.inst.nnn \div 256))

(* the sprite of the DRAW: start, rows that fall on the screen, set bits *)
StartX == VBefore(hist.inst.x) % 64
StartY == VBefore(hist.inst.y) % 32
SpriteByte(row) == MemRead(hist.pre.cpu.memory, hist.pre.cpu.index_r + row)
SpriteBit(row, bit) == (SpriteByte(row) \div (2 ^ (7 - bit))) % 2
SpriteInMemory ==
  \A row \in 0..(hist.inst.n - 1) :
     StartY + row < 32 => hist.pre.cpu.index_r + row < 4096
Toggled ==
  { (StartY + rb[1]) * 64 + StartX + rb[2] :
      rb \in { q \in (0..(hist.inst.n - 1)) \X (0..7) :
                 /\ SpriteBit(q[1], q[2]) = 1
                 /\ StartX + q[2] < 64
                 /\ StartY + q[1] < 32 } }

(* C20: DRAW Vx,Vy,N with the sprite rows in memory toggles exactly the pixels  *)
(* (sx + b, sy + r) of the set bits b of row r that fall on the screen, sx = Vx *)
(* mod 64, sy = Vy mod 32, nothing wrapping to the opposite edge; afterwards VF *)
(* = 1 iff a toggled pixel was on before, else 0.                               *)
C20_DrawTogglesClippedSprite ==
  (ExecutedOp("Draw") /\ SpriteInMemory) =>
     /\ hardware.screen.pixels =
          (hist.pre.screen.pixels \ Toggled) \cup (Toggled \ hist.pre.screen.pixels)
     /\ VAfter(15) = IF Toggled \cap hist.pre.screen.pixels # {} THEN 1 ELSE 0

(* a 15-row sprite drawn from (62, 30) on a frame with pixels on there: clipped *)
(* right and below, pixels were turned off and VF reports it                    *)
C20_Witness ==
  /\ ExecutedOp("Draw")
  /\ hist.inst.n = 15
  /\ StartX = 62
  /\ StartY = 30
  /\ hist.pre.screen.pixels # {}
  /\ Cardinality(Toggled) = 3
  /\ hardware.screen.pixels = hist.pre.screen.pixels \ Toggled
  /\ VAfter(15) = 1

(* ---------------- properties of two executes in succession ---------------- *)
(* the last two executes were the same DRAW, with I, the sprite bytes and the   *)
(* coordinate registers unchanged between the two                               *)
SameDrawTwice ==
  /\ hist.executed >= 2
  /\ hist.inst.op = "Draw"
  /\ hist.before_inst = hist.inst
  /\ hist.pre.cpu.index_r = hist.before.cpu.index_r
  /\ hist.pre.cpu.memory = hist.before.cpu.memory
  /\ hist.pre.cpu.gen_r[hist.inst.x] = hist.before.cpu.gen_r[hist.inst.x]
  /\ hist.pre.cpu.gen_r[hist.inst.y] = hist.before.cpu.gen_r[hist.inst.y]

(* C21: after the same DRAW Vx,Vy,N executed twice in succession, with I, the   *)
(* sprite bytes and the coordinate registers unchanged between the two, every   *)
(* pixel of the frame is as it was before the first draw, whatever the start    *)
(* coordinate, clipped sprites included.                                        *)
C21_DrawTwiceRestoresFrame ==
  SameDrawTwice => hardware.screen.pixels = hist.before.screen.pixels

(* a 15-row sprite drawn twice from (62, 30), clipped right and below, on a     *)
(* frame with pixels on: the first draw changed the frame, the second put it    *)
(* back                                                                         *)
C21_Witness ==
  /\ SameDrawTwice
  /\ hist.inst.n = 15
  /\ StartX = 62
  /\ StartY = 30
  /\ hist.before.screen.pixels # {}
  /\ hist.pre.screen.pixels # hist.before.screen.pixels
  /\ hardware.screen.pixels = hist.before.screen.pixels

(* C22, as stated: after the same DRAW executed twice in succession, VF is 1    *)
(* iff some pixel covered by a set bit of the sprite was on before the first    *)
(* draw.                                                                        *)
C22_SecondDrawFlagIffOnBefore ==
  SameDrawTwice =>
     (VAfter(15) = 1 <=> Toggled \cap hist.before.screen.pixels # {})

(* C22, amended: after the same DRAW executed twice in succession, VF is 1 iff  *)
(* some pixel covered by a set bit of the sprite was off before the first draw  *)
(* (the first draw turned it on, the second turns it off), and 0 otherwise.     *)
C22_SecondDrawFlagIffOffBefore ==
  SameDrawTwice =>
     VAfter(15) = IF Toggled \ hist.before.screen.pixels # {} THEN 1 ELSE 0

(* the three pixels a sprite covers at (62, 30) were all on: the first draw     *)
(* turned them off with VF = 1, the second turned them on again with VF = 0     *)
C22_Witness ==
  /\ SameDrawTwice
  /\ hist.inst.x = 0
  /\ hist.inst.y = 1
  /\ Cardinality(Toggled) = 3
  /\ Toggled \subseteq hist.before.screen.pixels
  /\ hist.pre.cpu.gen_r[15] = 1
  /\ VAfter(15) = 0

(* ---------------- memory block instructions, BCD, the stack ---------------- *)
IBefore == hist.pre.cpu.index_r
MBefore(addr) == MemRead(hist.pre.cpu.memory, addr)
MAfter(addr) == MemRead(hardware.cpu.memory, addr)
Addresses == 0..4095

(* I after STORE Vx or LOAD Vx *)
IndexAfterBlock == IF OnCosmac THEN IBefore + hist.inst.x + 1 ELSE IBefore

(* what STORE, LOAD and BCD leave alone: the stack, the timers, the latch; PC    *)
(* goes to the next opcode                                                       *)
OnlyMemoryRegistersAndIndexChanged ==
  hardware.cpu = [hist.pre.cpu EXCEPT !.memory = hardware.cpu.memory,
                                      !.gen_r = hardware.cpu.gen_r,
                                      !.index_r = hardware.cpu.index_r,
                                      !.pc_r = hist.pre.cpu.pc_r + 2]

(* C23: STORE Vx, with M[I]..M[I+x] in memory, puts V0..Vx in M[I]..M[I+x] and  *)
(* changes no other memory byte and no register; LOAD Vx puts M[I]..M[I+x] in   *)
(* V0..Vx and changes no other register and no memory byte; afterwards I is     *)
(* I + x + 1 on COSMAC and unchanged on CHIP-48 and SUPER-CHIP.                  *)
C23_StoreLoadBlock ==
  /\ (ExecutedOp("StoreAddr") /\ IBefore + hist.inst.x < 4096) =>
        /\ \A a \in Addresses :
              MAfter(a) = IF a >= IBefore /\ a <= IBefore + hist.inst.x
                          THEN VBefore(a - IBefore) ELSE MBefore(a)
        /\ DOMAIN hardware.cpu.memory \subseteq Addresses
        /\ hardware.cpu.gen_r = hist.pre.cpu.gen_r
        /\ hardware.cpu.index_r = IndexAfterBlock
        /\ OnlyMemoryRegistersAndIndexChanged
  /\ (ExecutedOp("LoadAddr") /\ IBefore + hist.inst.x < 4096) =>
        /\ \A r \in 0..15 :
              VAfter(r) = IF r <= hist.inst.x THEN MBefore(IBefore + r) ELSE VBefore(r)
        /\ hardware.cpu.memory = hist.pre.cpu.memory
        /\ hardware.cpu.index_r = IndexAfterBlock
        /\ OnlyMemoryRegistersAndIndexChanged

(* LOAD V2 on COSMAC from I = 0x300: V0..V2 hold the three bytes found there,   *)
(* VF is as before, I is 0x303                                                  *)
C23_Witness ==
  /\ ExecutedOp("LoadAddr")
  /\ OnCosmac
  /\ hist.inst.x = 2
  /\ IBefore = 768
  /\ VBefore(2) = 0
  /\ VAfter(0) = 255
  /\ VAfter(1) = 129
  /\ VAfter(2) = 60
  /\ VAfter(15) = 3
  /\ hardware.cpu.index_r = 771

(* C24: after BCD Vx, with M[I], M[I+1], M[I+2] in memory, each of the three is *)
(* in 0..9 and 100 * M[I] + 10 * M[I+1] + M[I+2] is the value of Vx, for every   *)
(* value 0..255; no register and no other memory byte changes.                  *)
C24_BcdDigitsRecompose ==
  (ExecutedOp("BinaryDecimalConv") /\ IBefore + 2 < 4096) =>
     /\ \A i \in 0..2 : MAfter(IBefore + i) \in 0..9
     /\ 100 * MAfter(IBefore) + 10 * MAfter(IBefore + 1) + MAfter(IBefore + 2)
           = VBefore(hist.inst.x)
     /\ \A a \in Addresses \ {IBefore, IBefore + 1, IBefore + 2} : MAfter(a) = MBefore(a)
     /\ DOMAIN hardware.cpu.memory \subseteq Addresses
     /\ hardware.cpu.gen_r = hist.pre.cpu.gen_r
     /\ hardware.cpu.index_r = IBefore
     /\ OnlyMemoryRegistersAndIndexChanged

(* BCD of 209 over the bytes 7, 8, 9: the digits 2, 0, 9 *)
C24_Witness ==
  /\ ExecutedOp("BinaryDecimalConv")
  /\ VBefore(hist.inst.x) = 209
  /\ MBefore(IBefore) = 7
  /\ MBefore(IBefore + 1) = 8
  /\ MAfter(IBefore) = 2
  /\ MAfter(IBefore + 1) = 0
  /\ MAfter(IBefore + 2) = 9

MemoryOps == {"Draw", "BinaryDecimalConv", "StoreAddr", "LoadAddr"}

(* C25: DRAW, BCD, STORE and LOAD make every memory access at an address masked *)
(* to 12 bits, whatever I the program has reached, so none of them indexes      *)
(* outside the 4096 bytes of memory or faults.                                  *)
C25_MemoryOpsNeverFault ==
  (Executed /\ hist.inst.op \in MemoryOps) => Alive(hardware)

(* C26: the stack never holds more than 16 return addresses: a CALL executed    *)
(* with 16 on the stack is a fatal overflow and does not grow it.               *)
C26_StackDepthAtMostCap ==
  /\ Len(hardware.cpu.stack) <= 16
  /\ (ExecutedOp("CallSubroutine") /\ Len(hist.pre.cpu.stack) = 16) =>
        (~Alive(hardware) /\ hardware.cpu.stack = hist.pre.cpu.stack)

(* ---------------- the instruction encoding ---------------- *)
(* the hexadecimal digits of an opcode, most significant first *)
Digit(raw, k) == (raw \div (16 ^ (4 - k))) % 16

(* the register operation of 8XYn in the encoding table, "-" for none *)
TableRegOp(last) ==
  CASE last = 0 -> "Set"
    [] last = 1 -> "Or"
    [] last = 2 -> "And"
    [] last = 3 -> "Xor"
    [] last = 4 -> "Add"
    [] last = 5 -> "Sub"
    [] last = 6 -> "ShiftRight"
    [] last = 7 -> "SubInv"
    [] last = 14 -> "ShiftLeft"
    [] OTHER -> "-"

(* the listed instruction of an opcode in the encoding table: instruction and   *)
(* skip condition, "Invalid" for a bit pattern the table does not list          *)
TableEntry(raw) ==
  LET group == Digit(raw, 1)
      low == raw % 256
      last == raw % 16
      entry(op, skipif) == [op |-> op, skipif |-> skipif]
  IN CASE raw = 224 -> entry("ClearScreen", "-")
       [] raw = 238 -> entry("Return", "-")
       [] group = 0 /\ raw # 224 /\ raw # 238 -> entry("ExecuteMachineLangRoutine", "-")
       [] group = 1 -> entry("Jump", "-")
       [] group = 2 -> entry("CallSubroutine", "-")
       [] group = 3 -> entry("Skip", "Eq")
       [] group = 4 -> entry("Skip", "NotEq")
       [] group = 5 /\ last = 0 -> entry("SkipReg", "Eq")
       [] group = 6 -> entry("SetRegImmediate", "-")
       [] group = 7 -> entry("AddRegImmediate", "-")
       [] group = 8 /\ TableRegOp(last) # "-" -> entry("RegOp", "-")
       [] group = 9 /\ last = 0 -> entry("SkipReg", "NotEq")
       [] group = 10 -> entry("SetIndex", "-")
       [] group = 11 -> entry("JumpWithOffset", "-")
       [] group = 12 -> entry("Random", "-")
       [] group = 13 -> entry("Draw", "-")
       [] group = 14 /\ low = 158 -> entry("SkipKeyPress", "Eq")
       [] group = 14 /\ low = 161 -> entry("SkipKeyPress", "NotEq")
       [] group = 15 /\ low = 7 -> entry("GetDelayTimer", "-")
       [] group = 15 /\ low = 21 -> entry("SetDelayTimer", "-")
       [] group = 15 /\ low = 24 -> entry("SetSoundTimer", "-")
       [] group = 15 /\ low = 10 -> entry("GetKey", "-")
       [] group = 15 /\ low = 30 -> entry("AddIndex", "-")
       [] group = 15 /\ low = 41 -> entry("SetFont", "-")
       [] group = 15 /\ low = 51 -> entry("BinaryDecimalConv", "-")
       [] group = 15 /\ low = 85 -> entry("StoreAddr", "-")
       [] group = 15 /\ low = 101 -> entry("LoadAddr", "-")
       [] OTHER -> entry("Invalid", "-")

(* C27: decoding an opcode gives, for each of the 2^16 bit patterns and from    *)
(* the opcode alone, the instruction the encoding table lists for it, with X    *)
(* the second nibble, Y the third, N the fourth, NN the low byte and NNN the    *)
(* low 12 bits; every 0NNN but 00E0 and 00EE is the no-op machine-language      *)
(* routine; every pattern the table does not list (8XY8..8XYD, 8XYF, 5XYn and   *)
(* 9XYn with n # 0, the other EXnn and FXnn) fails to decode.                   *)
C27_DecodeFollowsEncodingTable ==
  hist.decoded =>
     IF TableEntry(hist.raw).op = "Invalid"
     THEN hist.inst = NoInst
     ELSE /\ hist.inst.op = TableEntry(hist.raw).op
          /\ hist.inst.skipif = TableEntry(hist.raw).skipif
          /\ hist.inst.regop = IF hist.inst.op = "RegOp" THEN TableRegOp(hist.raw % 16) ELSE "-"
          /\ hist.inst.x = Digit(hist.raw, 2)
          /\ hist.inst.y = Digit(hist.raw, 3)
          /\ hist.inst.n = Digit(hist.raw, 4)
          /\ hist.inst.nn = hist.raw % 256
          /\ hist.inst.nnn = hist.raw % 4096

(* 8ABF was decoded, a pattern of group 8 the table does not list, and failed *)
C27_Witness ==
  /\ hist.decoded
  /\ hist.raw = 35519
  /\ hist.inst = NoInst

(* the opcode at PC before the last execute *)
OpcodeBefore ==
  MBefore(hist.pre.cpu.pc_r) * 256 + MBefore(hist.pre.cpu.pc_r + 1)

(* C28: an ExecuteInstruction handled with the latch not armed and an opcode at *)
(* PC that the encoding table does not list ends in a fatal fault: the opcode   *)
(* is not stepped over, and PC, the registers, memory, the stack and the frame  *)
(* are as they were.                                                            *)
C28_UndefinedOpcodeIsFatal ==
  ( /\ hist.executed > 0
    /\ ~is_waiting_for_key(hist.pre)
    /\ hist.pre.cpu.pc_r + 1 < 4096
    /\ TableEntry(OpcodeBefore).op = "Invalid" ) =>
       /\ ~Alive(hardware)
       /\ hardware.cpu = hist.pre.cpu
       /\ hardware.screen = hist.pre.screen

(* 5001 was at PC with pixels on the frame and a return address on the stack:   *)
(* the process has faulted with PC still on the opcode                          *)
C28_Witness ==
  /\ hist.executed = 1
  /\ OpcodeBefore = 20481
  /\ hist.pre.screen.pixels # {}
  /\ hist.pre.cpu.stack # << >>
  /\ ~Alive(hardware)
  /\ hardware.cpu.pc_r = ENTRY_POINT

(* ---------------- the timers ---------------- *)
(* the value of the delay timer: the value last written less the decrements     *)
(* handled since, not below 0                                                   *)
DelayExpected == IF hist.written > hist.since THEN hist.written - hist.since ELSE 0

(* C29: handling DecrementTimers takes exactly 1 off the delay and the sound    *)
(* timer when positive and leaves a timer at 0 where it is; after n             *)
(* DecrementTimers with no SET_DELAY in between the delay timer is              *)
(* max(d0 - n, 0), d0 the value last written, and GET_DELAY Vx reads exactly    *)
(* that value.                                                                  *)
C29_TimersCountDownToZero ==
  /\ hist.last = "decrement" =>
        /\ hardware.cpu.delay_timer = Decremented(hist.pre.cpu.delay_timer)
        /\ hardware.cpu.sound_timer = Decremented(hist.pre.cpu.sound_timer)
  /\ hardware.cpu.delay_timer = DelayExpected
  /\ ExecutedOp("GetDelayTimer") => VAfter(hist.inst.x) = DelayExpected

(* the program wrote 2 to the delay timer, three DecrementTimers were handled   *)
(* since, one of them with the sound timer running, and GET_DELAY read 0        *)
C29_Witness ==
  /\ hist.written = 2
  /\ hist.since = 3
  /\ hist.executed >= 3
  /\ ExecutedOp("GetDelayTimer")
  /\ VBefore(hist.inst.x) = 0
  /\ VAfter(hist.inst.x) = 0
  /\ hardware.cpu.sound_timer = 1

(* ---------------- loading a ROM ---------------- *)
(* C30: load_rom of a ROM of L <= 3584 bytes on a fresh machine succeeds and    *)
(* leaves the 80 font bytes at 0x050..0x09F, ROM byte i at 0x200 + i for every  *)
(* i < L, every other byte of memory zero and PC = 0x200; with L > 3584 it      *)
(* returns an error, copies no byte of the ROM and does not set PC to the       *)
(* entry point.                                                                 *)
C30_LoadRomPlacesFontAndRom ==
  hist.loaded =>
     IF Len(hist.rom) <= 3584
     THEN /\ hist.ok
          /\ \A a \in Addresses :
                MemRead(hardware.cpu.memory, a) =
                  IF a >= 80 /\ a <= 159 THEN FONT[a - 79]
                  ELSE IF a >= 512 /\ a < 512 + Len(hist.rom) THEN hist.rom[a - 511]
                  ELSE 0
          /\ << MemRead(hardware.cpu.memory, 80), MemRead(hardware.cpu.memory, 159) >>
                = << 240, 128 >>
          /\ DOMAIN hardware.cpu.memory \subseteq Addresses
          /\ hardware.cpu.pc_r = 512
     ELSE /\ ~hist.ok
          /\ \A a \in Addresses : a >= 512 => MemRead(hardware.cpu.memory, a) = 0
          /\ DOMAIN hardware.cpu.memory \subseteq Addresses
          /\ hardware.cpu.pc_r # 512

(* a ROM of exactly 3584 bytes was loaded: its last byte is the last byte of    *)
(* memory                                                                       *)
C30_Witness ==
  /\ hist.loaded
  /\ hist.ok
  /\ Len(hist.rom) = 3584
  /\ hist.rom[3584] = 255
  /\ MemRead(hardware.cpu.memory, 4095) = 255
  /\ hardware.cpu.pc_r = 512

(* ---------------- the skips ---------------- *)
(* C31: SKIP_KEY_PRESSED Vx and SKIP_KEY_NOT_PRESSED Vx consult the keypad with *)
(* key Vx & 0x0F for every byte in Vx: the skip is taken exactly when hex key   *)
(* Vx mod 16 is pressed (not pressed, for SKIP_KEY_NOT_PRESSED), so Vx = 0x10 + *)
(* k decides as Vx = k does.                                                    *)
C31_KeySkipConsultsLowNibble ==
  (ExecutedOp("SkipKeyPress") /\ Alive(hardware))
    => (hardware.cpu.pc_r = hist.pre.cpu.pc_r + 4) <=> ConditionHeld

(* C35: for SKIP_EQ, SKIP_NEQ, SKIP_EQ_REG, SKIP_NEQ_REG and the two key skips, *)
(* PC advances by 4 in all when the condition holds and by 2 when it does not,  *)
(* and the registers, I, the memory and the framebuffer stay as they were.      *)
C35_SkipAdvancesFourOrTwo ==
  (Executed /\ hist.inst.op \in SkipOps)
    => /\ Alive(hardware)
       /\ hardware.cpu.pc_r = hist.pre.cpu.pc_r + (IF ConditionHeld THEN 4 ELSE 2)
       /\ hardware.cpu.gen_r = hist.pre.cpu.gen_r
       /\ hardware.cpu.index_r = hist.pre.cpu.index_r
       /\ hardware.cpu.memory = hist.pre.cpu.memory
       /\ hardware.screen = hist.pre.screen

(* ---------------- the input pump ---------------- *)
(* the control messages sent to the clock task or in the pump's blocked send *)
ControlQueued == clock_chan \o input.out_cmd

TableRow(keys, hexes) == { << keys[i], hexes[i] >> : i \in 1..Len(keys) }

(* the layout table *)
LayoutTable(layout) ==
  CASE layout = "Qwerty" ->
         TableRow(<< "1", "2", "3", "4" >>, << 1, 2, 3, 12 >>)
         \cup TableRow(<< "q", "w", "e", "r" >>, << 4, 5, 6, 13 >>)
         \cup TableRow(<< "a", "s", "d", "f" >>, << 7, 8, 9, 14 >>)
         \cup TableRow(<< "z", "x", "c", "v" >>, << 10, 0, 11, 15 >>)
    [] layout = "Natural" ->
         TableRow(<< "1", "2", "3", "4" >>, << 1, 2, 3, 4 >>)
         \cup TableRow(<< "q", "w", "e", "r" >>, << 5, 6, 7, 8 >>)
         \cup TableRow(<< "a", "s", "d", "f" >>, << 9, 10, 11, 12 >>)
         \cup TableRow(<< "z", "x", "c", "v" >>, << 13, 14, 15, 0 >>)
    [] layout = "Sequential" ->
         TableRow(<< "1", "2", "3", "4" >>, << 1, 2, 3, 4 >>)
         \cup TableRow(<< "q", "w", "e", "r" >>, << 10, 11, 12, 13 >>)
         \cup TableRow(<< "5", "6", "7", "8", "9", "0", "t", "y" >>,
                       << 5, 6, 7, 8, 9, 0, 14, 15 >>)

C34_CallPushesReturnPops ==
  /\ ExecutedOp("CallSubroutine") =>
        /\ Alive(hardware)
        /\ hardware.cpu.stack = hist.pre.cpu.stack \o << hist.pre.cpu.pc_r >>
        /\ hardware.cpu.pc_r = OpcodeBefore % 4096
  /\ (ExecutedOp("Return") /\ hist.pre.cpu.stack # << >>) =>
        /\ Alive(hardware)
        /\ hist.pre.cpu.stack = hardware.cpu.stack \o << hardware.cpu.pc_r - 2 >>
  /\ (ExecutedOp("Return") /\ hist.before_inst.op = "CallSubroutine") =>
        /\ hardware.cpu.pc_r = hist.before.cpu.pc_r + 2
        /\ hardware.cpu.stack = hist.before.cpu.stack
  /\ (ExecutedOp("Return") /\ hist.pre.cpu.stack = << >>) =>
        /\ ~Alive(hardware)
        /\ hardware.cpu = hist.pre.cpu
        /\ hardware.screen = hist.pre.screen
        /\ hardware.key_state = hist.pre.key_state

(* a CALL at 0x200 with 15 return addresses on the stack and its RETURN: PC is  *)
(* 0x202 and the stack holds 15 again                                           *)
C34_Witness ==
  /\ ExecutedOp("Return")
  /\ hist.before_inst.op = "CallSubroutine"
  /\ hist.before.cpu.pc_r = ENTRY_POINT
  /\ Len(hist.pre.cpu.stack) = 16
  /\ Len(hardware.cpu.stack) = 15
  /\ hardware.cpu.pc_r = ENTRY_POINT + 2

(* ---------------- the instruction fetch ---------------- *)
(* C36: for every PC a loaded ROM can reach, the fetch of the two bytes at PC   *)
(* and PC + 1 stays inside the addresses 0..4095, also after the program has    *)
(* run or skipped past the last instruction at 0xFFE, and PC fits in 16 bits.   *)
C36_FetchStaysInsideMemory ==
  Alive(hardware) =>
     /\ hardware.cpu.pc_r \in 0..65535
     /\ { hardware.cpu.pc_r, hardware.cpu.pc_r + 1 } \subseteq 0..4095

(* ---------------- the key wait ---------------- *)
(* the opcode at the current PC *)
OpcodeAtPc ==
  MemRead(hardware.cpu.memory, hardware.cpu.pc_r) * 256
    + MemRead(hardware.cpu.memory, hardware.cpu.pc_r + 1)

(* C37: whenever the key-wait latch is armed on Vx, the two bytes at PC are the *)
(* opcode FX0A with that X; the latch is armed only by an execute of GET_KEY    *)
(* and cleared only by a key edge of the kind the variant requires (release on  *)
(* COSMAC, press otherwise); PC and memory do not change while it stays armed.  *)
C37_LatchSitsOnGetKey ==
  /\ [](hardware.cpu.waiting_for_key # << >> =>
          /\ Len(hardware.cpu.waiting_for_key) = 1
          /\ OpcodeAtPc = 61450 + 256 * hardware.cpu.waiting_for_key[1])
  /\ [][ hardware'.cpu.waiting_for_key # hardware.cpu.waiting_for_key =>
           IF hardware.cpu.waiting_for_key = << >>
           THEN /\ ExecHandled
                /\ OpcodeAtPc % 256 = 10
                /\ OpcodeAtPc \div 4096 = 15
                /\ hardware'.cpu.waiting_for_key = << (OpcodeAtPc \div 256) % 16 >>
           ELSE /\ KeyEventHandled
                /\ Head(hard_chan).kind =
                     (IF hardware.config.version = "Cosmac" THEN "Release" ELSE "Press")
                /\ hardware'.cpu.waiting_for_key = << >> ]_vars
  /\ [][ (hardware.cpu.waiting_for_key # << >> /\ hardware'.cpu.waiting_for_key # << >>) =>
           /\ hardware'.cpu.pc_r = hardware.cpu.pc_r
           /\ hardware'.cpu.memory = hardware.cpu.memory ]_vars

(* the latch is armed on V1 at the GET_KEY of the program, and has stayed armed *)
(* through a key edge of the wrong kind and a timer tick                        *)
C37_Witness ==
  /\ hardware.cpu.waiting_for_key = << 1 >>
  /\ OpcodeAtPc = 61706
  /\ hist.handled["input"] >= 1
  /\ hardware.cpu.delay_timer < 2
  /\ hardware.cpu.gen_r[1] = 0

(* C38: on CHIP-48 and SUPER-CHIP, the SKIP_KEY_PRESSED V1 that follows the     *)
(* GET_KEY V1 a press of key k has resumed, executed while the pump still holds *)
(* k as pressed (no release of k since), skips: PC goes from 0x202 to 0x206,    *)
(* however the clock's ExecuteInstruction falls among the pump's HandleKeyEvent *)
(* and UpdateKeyState.                                                          *)
C38_ResumedKeyIsOnKeypad ==
  [][ ( /\ ExecHandled
        /\ hardware.config.version \in {"Chip48", "SuperChip"}
        /\ hardware.cpu.waiting_for_key = << >>
        /\ hardware.cpu.pc_r = ENTRY_POINT + 2
        /\ OpcodeAtPc = 57758
        /\ register_val(hardware, 1) \in input.key_state )
      => hardware'.cpu.pc_r = ENTRY_POINT + 6 ]_vars

(* ---------------- progress of the producers ---------------- *)
(* the select! of the orchestrator has completed, or the process has ended *)
Stopped == orchestrator = "returned" \/ ~Alive(hardware)

(* C39: before shutdown no producer stays blocked on a send: the clock waiting  *)
(* for a slot of the hardware bus or of the playback channel, the timer, the    *)
(* screen and the input pump waiting for a slot of the hardware bus, and the    *)
(* pump waiting for a slot of the clock's channel, each get to send (or the run *)
(* stops); the hardware bus never holds more messages than its capacity.        *)
C39_BlockedProducersGetToSend ==
  /\ [](Len(hard_chan) <= HardChanCap)
  /\ (clock.pc \in {"send_tick", "send_step"}) ~> (clock.pc = "select" \/ Stopped)
  /\ (clock.pc = "send_playback") ~> (clock.pc = "select" \/ Stopped)
  /\ (timer.out # << >>) ~> (timer.out = << >> \/ Stopped)
  /\ (screen_task.out # << >>) ~> (screen_task.out = << >> \/ Stopped)
  /\ (input.out # << >>) ~> (input.out = << >> \/ Stopped)
  /\ (input.out_cmd # << >>) ~> (input.out_cmd = << >> \/ Stopped)

(* the bus is full with the clock, the timer and the input pump all waiting for *)
(* a slot                                                                       *)
C39_Witness ==
  /\ Len(hard_chan) = HardChanCap
  /\ clock.pc \in {"send_tick", "send_step"}
  /\ timer.out # << >>
  /\ input.out # << >>
  /\ orchestrator = "select"

====
